---- MODULE Spec2Model ----
(***************************************************************************)
(* Card 51 rules engine: the reducer applyAction (src/gameUtils.ts), the   *)
(* meld validator (src/src/engine/groupValidator.ts) and the card model    *)
(* (src/src/engine/card.ts).                                               *)
(*                                                                         *)
(* Card ids are opaque strings in the source (deckFactory.uid).  They are  *)
(* naturals here; their numeric order stands for the string order that     *)
(* Array.prototype.sort() uses on joker ids.  An id outside DOMAIN         *)
(* cardsById is an id the population does not hold: cardsById[id] is       *)
(* undefined in the source.                                                *)
(***************************************************************************)
EXTENDS Integers, Sequences, FiniteSets, TLC

(***************************************************************************)
(* Sequence helpers standing for the JavaScript array primitives.          *)
(***************************************************************************)

\* Array.prototype.includes
Includes(s, x) == \E i \in 1..Len(s) : s[i] = x

\* Array.prototype.indexOf, 1-based; 0 stands for JavaScript's -1
IndexOf(s, x) ==
  IF Includes(s, x) THEN CHOOSE i \in 1..Len(s) : s[i] = x /\ \A j \in 1..(i-1) : s[j] # x
  ELSE 0

\* s without its i-th element (1 <= i <= Len(s))
RemoveAt(s, i) == [k \in 1..(Len(s)-1) |-> IF k < i THEN s[k] ELSE s[k+1]]

\* arr.splice(arr.indexOf(x), 1): indexOf's -1 makes splice(-1, 1) remove the LAST
\* element; on an empty array splice removes nothing.
SpliceIndexOf(s, x) ==
  IF Len(s) = 0 THEN s
  ELSE IF IndexOf(s, x) = 0 THEN RemoveAt(s, Len(s))
  ELSE RemoveAt(s, IndexOf(s, x))

\* Array.prototype.filter, given the set of kept positions: the elements at the
\* positions of idx, in order
Pick(s, idx) ==
  [k \in 1..Cardinality(idx) |->
     s[CHOOSE i \in idx : Cardinality({j \in idx : j < i}) = k - 1]]

\* Array.prototype.flat (one level)
RECURSIVE Flat(_)
Flat(groups) == IF groups = <<>> THEN <<>> ELSE Head(groups) \o Flat(Tail(groups))

\* The elements of a sequence (new Set(arr))
Range(s) == {s[i] : i \in 1..Len(s)}

\* Array.prototype.sort by numeric keys (keys[i] is the key of s[i]), stable (ES2019)
SortByKeys(s, keys) ==
  LET pos(i) == 1 + Cardinality({j \in 1..Len(s) :
                     keys[j] < keys[i] \/ (keys[j] = keys[i] /\ j < i)})
  IN [k \in 1..Len(s) |-> s[CHOOSE i \in 1..Len(s) : pos(i) = k]]

\* Array.prototype.sort on ids, and with (a, b) => a - b on numbers
Sort(s) == SortByKeys(s, s)

(***************************************************************************)
(* Card model (card.ts)                                                    *)
(***************************************************************************)

Null == -1

\* SUIT_ORDER with the suits in the opposite order
SUIT_ORDER_reversed == <<"SPADES", "HEARTS", "DIAMONDS", "CLUBS">>

SUIT_ORDER == <<"CLUBS", "DIAMONDS", "HEARTS", "SPADES">>

\* The value the source reads for an id that cardsById does not hold
Undefined == [id |-> Null, suit |-> "undefined", rank |-> "undefined"]

IsUndefined(c) == c = Undefined

\* getValue counting an ace as 11
getValue_aceEleven(rank) ==
  CASE rank = "ACE" -> 11
    [] rank \in {"KING", "QUEEN", "JACK", "TEN"} -> 10
    [] rank = "TWO" -> 2
    [] rank = "THREE" -> 3
    [] rank = "FOUR" -> 4
    [] rank = "FIVE" -> 5
    [] rank = "SIX" -> 6
    [] rank = "SEVEN" -> 7
    [] rank = "EIGHT" -> 8
    [] rank = "NINE" -> 9
    [] OTHER -> 0

\* Card.getValue
getValue(rank) ==
  CASE rank \in {"ACE", "KING", "QUEEN", "JACK", "TEN"} -> 10
    [] rank = "TWO" -> 2
    [] rank = "THREE" -> 3
    [] rank = "FOUR" -> 4
    [] rank = "FIVE" -> 5
    [] rank = "SIX" -> 6
    [] rank = "SEVEN" -> 7
    [] rank = "EIGHT" -> 8
    [] rank = "NINE" -> 9
    [] OTHER -> 0

(***************************************************************************)
(* Meld validator (groupValidator.ts)                                      *)
(***************************************************************************)

\* rankIndex with the ace low under both modes
rankIndex_aceLow(rank, mode) ==
  CASE rank = "TWO" -> 2
    [] rank = "THREE" -> 3
    [] rank = "FOUR" -> 4
    [] rank = "FIVE" -> 5
    [] rank = "SIX" -> 6
    [] rank = "SEVEN" -> 7
    [] rank = "EIGHT" -> 8
    [] rank = "NINE" -> 9
    [] rank = "TEN" -> 10
    [] rank = "JACK" -> 11
    [] rank = "QUEEN" -> 12
    [] rank = "KING" -> 13
    [] rank = "ACE" -> 1
    [] OTHER -> 0

rankIndex(rank, mode) ==
  CASE rank = "TWO" -> 2
    [] rank = "THREE" -> 3
    [] rank = "FOUR" -> 4
    [] rank = "FIVE" -> 5
    [] rank = "SIX" -> 6
    [] rank = "SEVEN" -> 7
    [] rank = "EIGHT" -> 8
    [] rank = "NINE" -> 9
    [] rank = "TEN" -> 10
    [] rank = "JACK" -> 11
    [] rank = "QUEEN" -> 12
    [] rank = "KING" -> 13
    [] rank = "ACE" -> (IF mode = "HIGH" THEN 14 ELSE 1)
    [] OTHER -> 0

indexToRank(idx, mode) ==
  CASE idx = 1 -> "ACE"
    [] idx = 2 -> "TWO"
    [] idx = 3 -> "THREE"
    [] idx = 4 -> "FOUR"
    [] idx = 5 -> "FIVE"
    [] idx = 6 -> "SIX"
    [] idx = 7 -> "SEVEN"
    [] idx = 8 -> "EIGHT"
    [] idx = 9 -> "NINE"
    [] idx = 10 -> "TEN"
    [] idx = 11 -> "JACK"
    [] idx = 12 -> "QUEEN"
    [] idx = 13 -> "KING"
    [] idx = 14 -> "ACE"
    [] OTHER -> "JOKER"

isJoker(c) == c.rank = "JOKER"

\* cards.filter(isJoker) and cards.filter((c) => !isJoker(c))
Jokers(cards) == Pick(cards, {i \in 1..Len(cards) : isJoker(cards[i])})

NonJokers(cards) == Pick(cards, {i \in 1..Len(cards) : ~isJoker(cards[i])})

Ids(cards) == [i \in 1..Len(cards) |-> cards[i].id]

\* The three outcomes of a validation: a meld, an error value, a thrown TypeError
\* (reading .rank of undefined in isJoker).
NoJokers == [j \in {} |-> [suit |-> "JOKER", rank |-> "JOKER"]]

MeldOk(kind, aceMode, orderedIds, jokerMap) ==
  [ok |-> TRUE, threw |-> FALSE, error |-> "", kind |-> kind, aceMode |-> aceMode,
   orderedIds |-> orderedIds, jokerMap |-> jokerMap]

MeldError(error) ==
  [ok |-> FALSE, threw |-> FALSE, error |-> error, kind |-> "", aceMode |-> "",
   orderedIds |-> <<>>, jokerMap |-> NoJokers]

MeldThrow ==
  [ok |-> FALSE, threw |-> TRUE, error |-> "TypeError", kind |-> "", aceMode |-> "",
   orderedIds |-> <<>>, jokerMap |-> NoJokers]

\* jokerMap[jokerIds[i]] = rep(i) for i = 0..n-1 in order: a later write to the
\* same key replaces the earlier one.
AssignJokers(jokerIds, reps) ==
  [j \in Range(jokerIds) |->
     reps[CHOOSE i \in 1..Len(jokerIds) :
            jokerIds[i] = j /\ \A k \in (i+1)..Len(jokerIds) : jokerIds[k] # j]]

\* Values that the source computes once and then reads several times are passed
\* as parameters of a local operator, which is applied once.
validateSet(cards) ==
  LET \* lines 105-137, with the jokers and the non-jokers of cards
      Checked(non, jokerIds) ==
        LET rank == non[1].rank
            suitSet == {non[i].suit : i \in 1..Len(non)}
            \* lines 122-137, with the suits the jokers stand for
            Mapped(missing) ==
              IF Len(jokerIds) > Len(missing) THEN MeldError("Too many jokers for set.")
              ELSE MeldOk("SET", "",
                          Ids(SortByKeys(non, [i \in 1..Len(non) |-> IndexOf(SUIT_ORDER, non[i].suit)]))
                            \o jokerIds,
                          AssignJokers(jokerIds,
                            [i \in 1..Len(jokerIds) |-> [suit |-> missing[i], rank |-> rank]]))
        IN
        IF Len(non) = 0 THEN MeldError("Set must have at least one non-joker card.")
        ELSE IF \E i \in 1..Len(non) : non[i].rank # rank THEN MeldError("Set ranks must match.")
        ELSE IF \E i, j \in 1..Len(non) : i < j /\ non[i].suit = non[j].suit
          THEN MeldError("Duplicate suit in set.")
        ELSE IF Cardinality(suitSet) + Len(jokerIds) # Len(cards) THEN MeldError("Invalid set size.")
        ELSE Mapped(Pick(SUIT_ORDER, {i \in 1..Len(SUIT_ORDER) : SUIT_ORDER[i] \notin suitSet}))
  IN
  IF Len(cards) < 3 \/ Len(cards) > 4 THEN MeldError("Set must be size 3 or 4.")
  ELSE IF \E i \in 1..Len(cards) : IsUndefined(cards[i]) THEN MeldThrow
  ELSE Checked(NonJokers(cards), Sort(Ids(Jokers(cards))))

\* chosenStart taking the last window that fits instead of the first
chosenStart_last(lo, hi, len, min, max, nNon, nJokers) ==
  LET fits == {start \in lo..hi :
                 /\ ~(min < start \/ max > start + len - 1)
                 /\ len - nNon <= nJokers}
  IN IF fits = {} THEN 0 ELSE CHOOSE s \in fits : \A t \in fits : s >= t

\* The smallest start in lo..hi whose window [start, start+len-1] holds min..max
\* and whose free slots the jokers can fill; 0 when there is none.
chosenStart(lo, hi, len, min, max, nNon, nJokers) ==
  LET fits == {start \in lo..hi :
                 /\ ~(min < start \/ max > start + len - 1)
                 /\ len - nNon <= nJokers}
  IN IF fits = {} THEN 0 ELSE CHOOSE s \in fits : \A t \in fits : s <= t

validateRun(cards, mode) ==
  LET len == Len(cards)
      maxRank == IF mode = "HIGH" THEN 14 ELSE 13
      minRank == IF mode = "HIGH" THEN 2 ELSE 1
      \* lines 181-216, with the window's start and the indexes it lacks
      Filled(non, jokerIds, start, missingIdxs) ==
        LET \* byIndex[rankIndex(c.rank)] = c.id in the order of non: the last write wins
            byIndex(v) ==
              LET at == {i \in 1..Len(non) : rankIndex(non[i].rank, mode) = v}
              IN IF at = {} THEN Null ELSE non[CHOOSE i \in at : \A k \in at : k <= i].id
            \* the joker cursor at slot v: the slots before it without a real card
            cursor(v) == Cardinality({u \in start..(v-1) : byIndex(u) = Null})
            \* orderedIds at slot v, given the real id found there
            slot(v, realId) == IF realId # Null THEN realId ELSE jokerIds[cursor(v) + 1]
        IN
        IF Len(jokerIds) > Len(missingIdxs)
        THEN MeldError("Too many jokers for chosen run window.")
        ELSE MeldOk("RUN", mode,
                    [k \in 1..len |-> slot(start + k - 1, byIndex(start + k - 1))],
                    AssignJokers(jokerIds,
                      [i \in 1..Len(jokerIds) |->
                         [suit |-> non[1].suit, rank |-> indexToRank(missingIdxs[i], mode)]]))
      \* lines 164-180, with the chosen start (0 for null)
      Windowed(non, jokerIds, idxs, start) ==
        IF start = 0 THEN MeldError("Run cannot be completed with jokers.")
        ELSE Filled(non, jokerIds, start,
                    Pick([k \in 1..len |-> start + k - 1],
                         {k \in 1..len : \A i \in 1..Len(idxs) : idxs[i] # start + k - 1}))
      \* lines 147-162, with the sorted rank indexes of the non-jokers
      Ranked(non, jokerIds, idxs) ==
        IF \E i \in 1..Len(non) : non[i].suit # non[1].suit THEN MeldError("Run suit must match.")
        ELSE IF \E i \in 2..Len(idxs) : idxs[i] = idxs[i-1] THEN MeldError("Duplicate rank in run.")
        ELSE Windowed(non, jokerIds, idxs,
                      chosenStart(minRank, maxRank - len + 1, len, idxs[1], idxs[Len(idxs)],
                                  Len(idxs), Len(jokerIds)))
      Checked(non, jokerIds) ==
        IF Len(non) = 0 THEN MeldError("Run cannot be all jokers.")
        ELSE Ranked(non, jokerIds, Sort([i \in 1..Len(non) |-> rankIndex(non[i].rank, mode)]))
  IN
  IF len < 3 THEN MeldError("Run must be at least 3 cards.")
  ELSE IF \E i \in 1..len : IsUndefined(cards[i]) THEN MeldThrow
  ELSE Checked(NonJokers(cards), Sort(Ids(Jokers(cards))))

\* validateMeld trying RUN under HIGH before RUN under LOW
validateMeld_highFirst(cards) ==
  LET First(setRes, low, high) ==
        IF setRes.threw THEN setRes
        ELSE IF setRes.ok THEN setRes
        ELSE IF high.threw THEN high
        ELSE IF high.ok THEN high
        ELSE IF low.ok THEN low
        ELSE MeldError("Not a valid set or run.")
  IN First(validateSet(cards), validateRun(cards, "LOW"), validateRun(cards, "HIGH"))

\* validateMeld returning the ids of a valid meld in the order given
validateMeld_asGiven(cards) ==
  LET First(setRes, low, high) ==
        IF setRes.threw THEN setRes
        ELSE IF setRes.ok THEN [setRes EXCEPT !.orderedIds = Ids(cards)]
        ELSE IF low.threw THEN low
        ELSE IF low.ok THEN [low EXCEPT !.orderedIds = Ids(cards)]
        ELSE IF high.ok THEN [high EXCEPT !.orderedIds = Ids(cards)]
        ELSE MeldError("Not a valid set or run.")
  IN First(validateSet(cards), validateRun(cards, "LOW"), validateRun(cards, "HIGH"))

\* SET first, then RUN under LOW, then RUN under HIGH; the first success wins.
validateMeld(cards) ==
  LET First(setRes, low, high) ==
        IF setRes.threw THEN setRes
        ELSE IF setRes.ok THEN setRes
        ELSE IF low.threw THEN low
        ELSE IF low.ok THEN low
        ELSE IF high.ok THEN high
        ELSE MeldError("Not a valid set or run.")
  IN First(validateSet(cards), validateRun(cards, "LOW"), validateRun(cards, "HIGH"))

(***************************************************************************)
(* The card population.  initGame builds cardsById from the shuffled deck  *)
(* and never changes it.  The model plays with 30 of the 106 cards, two    *)
(* jokers among them, so that the draw order runs out within a few turns.  *)
(***************************************************************************)

Card(suit, rank) == [suit |-> suit, rank |-> rank]

cardsById ==
  <<Card("SPADES", "NINE"), Card("SPADES", "TEN"), Card("SPADES", "JACK"),
    Card("SPADES", "QUEEN"), Card("SPADES", "KING"), Card("SPADES", "ACE"),
    Card("CLUBS", "EIGHT"), Card("DIAMONDS", "EIGHT"),
    Card("HEARTS", "TWO"), Card("HEARTS", "THREE"), Card("HEARTS", "FOUR"),
    Card("HEARTS", "FIVE"), Card("HEARTS", "SIX"), Card("DIAMONDS", "SEVEN"),
    Card("HEARTS", "EIGHT"), Card("CLUBS", "TWO"), Card("CLUBS", "FOUR"),
    Card("CLUBS", "SIX"), Card("DIAMONDS", "NINE"), Card("DIAMONDS", "JACK"),
    Card("DIAMONDS", "KING"), Card("DIAMONDS", "THREE"), Card("DIAMONDS", "FIVE"),
    Card("HEARTS", "TEN"), Card("HEARTS", "QUEEN"), Card("CLUBS", "SEVEN"),
    Card("SPADES", "THREE"), Card("SPADES", "EIGHT"),
    Card("JOKER", "JOKER"), Card("JOKER", "JOKER")>>

\* The ids of the population
CardIDs == DOMAIN cardsById

\* An id that names no card of the population
UnknownId == Len(cardsById) + 1

\* state.cardsById[id] as a CardDTO, or undefined
dto(id) ==
  LET Lookup(byId) ==
        IF id \in DOMAIN byId
        THEN [id |-> id, suit |-> byId[id].suit, rank |-> byId[id].rank]
        ELSE Undefined
  IN Lookup(cardsById)

dtoByIds(ids) == [i \in 1..Len(ids) |-> dto(ids[i])]

\* groupPoints: toCardClass reads .suit of undefined for an id without a card
groupPointsThrows(ids) == \E i \in 1..Len(ids) : IsUndefined(dto(ids[i]))

RECURSIVE groupPoints(_)
groupPoints(ids) ==
  IF ids = <<>> THEN 0 ELSE getValue(dto(Head(ids)).rank) + groupPoints(Tail(ids))

(***************************************************************************)
(* Game state and reducer (src/gameUtils.ts, from line 55)                 *)
(***************************************************************************)

PlayerIDs == 0..3

HandSize == 14

OpenPoints == 51

Hand(st, p) == st.playersPrivate[p].hand

\* The result of one applyAction call: a value {ok, error}, or a thrown TypeError;
\* state is the state object as the call leaves it.
Ok(st) == [ok |-> TRUE, error |-> "", threw |-> FALSE, state |-> st]

Err(st, error) == [ok |-> FALSE, error |-> error, threw |-> FALSE, state |-> st]

Throw(st) == [ok |-> FALSE, error |-> "TypeError", threw |-> TRUE, state |-> st]

\* ensurePlayer with its two checks in the other order
ensurePlayer_gameOverFirst(st, player) ==
  IF st.phase = "GAME_OVER" THEN "Game is over."
  ELSE IF player # st.currentTurn THEN "Not your turn."
  ELSE ""

\* ensurePlayer without the GAME_OVER check
ensurePlayer_turnOnly(st, player) ==
  IF player # st.currentTurn THEN "Not your turn." ELSE ""

ensurePlayer(st, player) ==
  IF player # st.currentTurn THEN "Not your turn."
  ELSE IF st.phase = "GAME_OVER" THEN "Game is over."
  ELSE ""

\* A write of the hand that leaves handCount as it was
WithHand_noCount(st, player, hand) ==
  [st EXCEPT !.playersPrivate[player].hand = hand]

WithHand(st, player, hand) ==
  [st EXCEPT !.playersPrivate[player].hand = hand,
             !.playersPublic[player].handCount = Len(hand)]

\* the second loop of removeFromHand
RECURSIVE spliceEach(_, _)
spliceEach(hand, cardIds) ==
  IF cardIds = <<>> THEN hand
  ELSE spliceEach(SpliceIndexOf(hand, Head(cardIds)), Tail(cardIds))

\* removeFromHand taking every card of the hand
removeFromHand_wholeHand(st, player, cardIds) ==
  IF \E i \in 1..Len(cardIds) : ~Includes(Hand(st, player), cardIds[i])
  THEN [ok |-> FALSE, state |-> st]
  ELSE [ok |-> TRUE, state |-> WithHand(st, player, <<>>)]

\* removeFromHand without its first loop: it splices before it reports a missing id
removeFromHand_spliceFirst(st, player, cardIds) ==
  [ok |-> \A i \in 1..Len(cardIds) : Includes(Hand(st, player), cardIds[i]),
   state |-> WithHand(st, player, spliceEach(Hand(st, player), cardIds))]

removeFromHand(st, player, cardIds) ==
  IF \E i \in 1..Len(cardIds) : ~Includes(Hand(st, player), cardIds[i])
  THEN [ok |-> FALSE, state |-> st]
  ELSE [ok |-> TRUE, state |-> WithHand(st, player, spliceEach(Hand(st, player), cardIds))]

addBackToHand(st, player, cardIds) == WithHand(st, player, Hand(st, player) \o cardIds)

\* nextTurn keeping the record of the last draw
nextTurn_keepsDraw(st) ==
  [st EXCEPT !.currentTurn = (st.currentTurn + 1) % st.numPlayers,
             !.phase = "DRAW"]

\* nextTurn without the wrap-around
nextTurn_noWrap(st) ==
  [st EXCEPT !.currentTurn = st.currentTurn + 1,
             !.phase = "DRAW",
             !.lastDrawnCardId = Null,
             !.lastDrawSource = "null"]

nextTurn(st) ==
  [st EXCEPT !.currentTurn = (st.currentTurn + 1) % st.numPlayers,
             !.phase = "DRAW",
             !.lastDrawnCardId = Null,
             !.lastDrawSource = "null"]

\* newMeldId: a time stamp and a random suffix, taken to be fresh.  Melds are never
\* removed, so the count of melds laid so far names a fresh id.
newMeldId(st) == Len(st.tableMelds) + 1

\* A table meld that records no owner
Meld_noOwner(id, owner, v) ==
  [id |-> id, owner |-> Null, cardIds |-> v.orderedIds, kind |-> v.kind,
   aceMode |-> v.aceMode, jokerMap |-> v.jokerMap]

\* A table meld that drops the validator's jokerMap
Meld_noJokerMap(id, owner, v) ==
  [id |-> id, owner |-> owner, cardIds |-> v.orderedIds, kind |-> v.kind,
   aceMode |-> v.aceMode, jokerMap |-> NoJokers]

Meld(id, owner, v) ==
  [id |-> id, owner |-> owner, cardIds |-> v.orderedIds, kind |-> v.kind,
   aceMode |-> v.aceMode, jokerMap |-> v.jokerMap]

\* state.tableMelds.find((m) => m.id === meldId), as a position; 0 for undefined
findMeld(st, meldId) ==
  IF \E i \in 1..Len(st.tableMelds) : st.tableMelds[i].id = meldId
  THEN CHOOSE i \in 1..Len(st.tableMelds) :
         /\ st.tableMelds[i].id = meldId
         /\ \A j \in 1..(i-1) : st.tableMelds[j].id # meldId
  ELSE 0

initGame(numPlayers, deck) ==
  LET hand(p) == IF p < numPlayers THEN SubSeq(deck, p * HandSize + 1, (p + 1) * HandSize)
                 ELSE <<>>
      drawOrder == SubSeq(deck, numPlayers * HandSize + 1, Len(deck))
  IN [numPlayers |-> numPlayers,
      currentTurn |-> 0,
      phase |-> "DRAW",
      winner |-> Null,
      deckCount |-> Len(drawOrder),
      discard |-> <<>>,
      lastDrawnCardId |-> Null,
      lastDrawSource |-> "null",
      playersPublic |-> [p \in PlayerIDs |-> [id |-> p, opened |-> FALSE, handCount |-> Len(hand(p))]],
      playersPrivate |-> [p \in PlayerIDs |-> [hand |-> hand(p)]],
      tableMelds |-> <<>>,
      drawOrder |-> drawOrder]

(***************************************************************************)
(* applyAction, one operator per branch.  Each takes the state and the     *)
(* action and gives the call's result.                                     *)
(***************************************************************************)

\* DRAW_DECK taking the first id of the draw order (shift) instead of the last (pop)
applyDRAW_DECK_shift(st, action) ==
  IF st.phase # "DRAW" THEN Err(st, "Not in DRAW phase.")
  ELSE IF st.drawOrder = <<>> THEN Err(st, "Deck empty.")
  ELSE
    LET id == Head(st.drawOrder)
        rest == Tail(st.drawOrder)
    IN Ok([st EXCEPT !.drawOrder = rest,
                     !.deckCount = Len(rest),
                     !.playersPrivate[action.player].hand = @ \o <<id>>,
                     !.playersPublic[action.player].handCount = @ + 1,
                     !.lastDrawnCardId = id,
                     !.lastDrawSource = "DECK",
                     !.phase = "ACTION"])

\* lines 166-179
applyDRAW_DECK(st, action) ==
  IF st.phase # "DRAW" THEN Err(st, "Not in DRAW phase.")
  ELSE IF st.drawOrder = <<>> THEN Err(st, "Deck empty.")
  ELSE
    LET id == st.drawOrder[Len(st.drawOrder)]
        rest == SubSeq(st.drawOrder, 1, Len(st.drawOrder) - 1)
    IN Ok([st EXCEPT !.drawOrder = rest,
                     !.deckCount = Len(rest),
                     !.playersPrivate[action.player].hand = @ \o <<id>>,
                     !.playersPublic[action.player].handCount = @ + 1,
                     !.lastDrawnCardId = id,
                     !.lastDrawSource = "DECK",
                     !.phase = "ACTION"])

\* The recursive call applyAction(state, {type: "DRAW_DECK", player}) of lines 186
\* and 191: ensurePlayer again, then the DRAW_DECK branch.
reapplyDRAW_DECK(st, player) ==
  IF ensurePlayer(st, player) # "" THEN Err(st, ensurePlayer(st, player))
  ELSE applyDRAW_DECK(st, [type |-> "DRAW_DECK", player |-> player])

\* DRAW_DISCARD without the test that the player has opened
applyDRAW_DISCARD_anyActor(st, action) ==
  IF st.phase # "DRAW" THEN Err(st, "Not in DRAW phase.")
  ELSE IF st.discard = <<>> THEN reapplyDRAW_DECK(st, action.player)
  ELSE
    LET id == st.discard[Len(st.discard)]
    IN Ok([st EXCEPT !.discard = SubSeq(st.discard, 1, Len(st.discard) - 1),
                     !.playersPrivate[action.player].hand = @ \o <<id>>,
                     !.playersPublic[action.player].handCount = @ + 1,
                     !.lastDrawnCardId = id,
                     !.lastDrawSource = "DISCARD",
                     !.phase = "ACTION"])

\* DRAW_DISCARD taking the bottom (first) id of the discard pile instead of the top
applyDRAW_DISCARD_bottom(st, action) ==
  IF st.phase # "DRAW" THEN Err(st, "Not in DRAW phase.")
  ELSE IF ~st.playersPublic[action.player].opened THEN reapplyDRAW_DECK(st, action.player)
  ELSE IF st.discard = <<>> THEN reapplyDRAW_DECK(st, action.player)
  ELSE
    LET id == Head(st.discard)
    IN Ok([st EXCEPT !.discard = Tail(st.discard),
                     !.playersPrivate[action.player].hand = @ \o <<id>>,
                     !.playersPublic[action.player].handCount = @ + 1,
                     !.lastDrawnCardId = id,
                     !.lastDrawSource = "DISCARD",
                     !.phase = "ACTION"])

\* lines 181-201
applyDRAW_DISCARD(st, action) ==
  IF st.phase # "DRAW" THEN Err(st, "Not in DRAW phase.")
  ELSE IF ~st.playersPublic[action.player].opened THEN reapplyDRAW_DECK(st, action.player)
  ELSE IF st.discard = <<>> THEN reapplyDRAW_DECK(st, action.player)
  ELSE
    LET id == st.discard[Len(st.discard)]
    IN Ok([st EXCEPT !.discard = SubSeq(st.discard, 1, Len(st.discard) - 1),
                     !.playersPrivate[action.player].hand = @ \o <<id>>,
                     !.playersPublic[action.player].handCount = @ + 1,
                     !.lastDrawnCardId = id,
                     !.lastDrawSource = "DISCARD",
                     !.phase = "ACTION"])

\* lines 235-238: the validation of one proposed group
validateGroup(g) ==
  IF Len(g) < 3 THEN MeldError("Each group must have 3+ cards.")
  ELSE validateMeld(dtoByIds(g))

\* lines 248-260: one meld per group, in order, each with a fresh id
RECURSIVE pushMelds(_, _, _)
pushMelds(st, owner, validations) ==
  IF validations = <<>> THEN st
  ELSE pushMelds([st EXCEPT !.tableMelds = @ \o <<Meld(newMeldId(st), owner, Head(validations))>>],
                 owner, Tail(validations))

\* lines 203-265
applyOPEN_MULTI(st, action) ==
  LET p == action.player
      Open(flat, validations, removed) ==
        LET unique == Range(flat)
            failed == {i \in 1..Len(validations) : ~validations[i].ok}
        IN
        IF st.phase # "ACTION" THEN Err(st, "Not in ACTION phase.")
        ELSE IF st.playersPublic[p].opened THEN Err(st, "Already opened.")
        ELSE IF Len(action.groups) < 1 THEN Err(st, "Must open with at least one meld.")
        ELSE IF Cardinality(unique) # Len(flat) THEN Err(st, "Duplicate card in groups.")
        ELSE IF st.lastDrawSource = "DISCARD" /\ st.lastDrawnCardId = Null
          THEN Err(st, "No drawn card recorded.")
        ELSE IF st.lastDrawSource = "DISCARD" /\ st.lastDrawnCardId \notin unique
          THEN Err(st, "Opening must include the discard-drawn card.")
        ELSE IF Len(Hand(st, p)) - Len(flat) < 1 THEN Err(st, "Must keep one to discard.")
        ELSE IF \E i \in 1..Len(flat) : ~Includes(Hand(st, p), flat[i])
          THEN Err(st, "Card not in hand.")
        ELSE IF groupPointsThrows(flat) THEN Throw(st)
        ELSE IF groupPoints(flat) < OpenPoints THEN Err(st, "Need 51+ points to open.")
        ELSE IF \E i \in 1..Len(validations) : validations[i].threw THEN Throw(st)
        ELSE IF failed # {}
          THEN Err(st, validations[CHOOSE i \in failed : \A j \in failed : i <= j].error)
        ELSE IF ~removed.ok THEN Err(removed.state, "Card not in hand.")
        ELSE Ok([pushMelds(removed.state, p, validations)
                   EXCEPT !.playersPublic[p].opened = TRUE,
                          !.phase = "DISCARD"])
  IN Open(Flat(action.groups),
          [i \in 1..Len(action.groups) |-> validateGroup(action.groups[i])],
          removeFromHand(st, p, Flat(action.groups)))

\* OPEN_GROUP requiring the drawn card in the group whatever the source of the draw
applyOPEN_GROUP_anySource(st, action) ==
  LET p == action.player
      Open(validation, removed) ==
        IF st.phase # "ACTION" THEN Err(st, "Not in ACTION phase.")
        ELSE IF st.playersPublic[p].opened THEN Err(st, "Already opened.")
        ELSE IF st.lastDrawnCardId = Null THEN Err(st, "No drawn card recorded.")
        ELSE IF ~Includes(action.cardIds, st.lastDrawnCardId)
          THEN Err(st, "Opening group must include the discard-drawn card.")
        ELSE IF groupPointsThrows(action.cardIds) THEN Throw(st)
        ELSE IF groupPoints(action.cardIds) < OpenPoints THEN Err(st, "Need 51+ points to open.")
        ELSE IF Len(Hand(st, p)) - Len(action.cardIds) < 1 THEN Err(st, "Must keep one to discard.")
        ELSE IF validation.threw THEN Throw(st)
        ELSE IF ~validation.ok THEN Err(st, validation.error)
        ELSE IF ~removed.ok THEN Err(removed.state, "Card not in hand.")
        ELSE Ok([removed.state
                   EXCEPT !.tableMelds = @ \o <<Meld(newMeldId(st), p, validation)>>,
                          !.playersPublic[p].opened = TRUE,
                          !.phase = "DISCARD"])
  IN Open(validateMeld(dtoByIds(action.cardIds)), removeFromHand(st, p, action.cardIds))

\* lines 267-302
applyOPEN_GROUP(st, action) ==
  LET p == action.player
      Open(validation, removed) ==
        IF st.phase # "ACTION" THEN Err(st, "Not in ACTION phase.")
        ELSE IF st.playersPublic[p].opened THEN Err(st, "Already opened.")
        ELSE IF st.lastDrawSource = "DISCARD" /\ st.lastDrawnCardId = Null
          THEN Err(st, "No drawn card recorded.")
        ELSE IF st.lastDrawSource = "DISCARD" /\ ~Includes(action.cardIds, st.lastDrawnCardId)
          THEN Err(st, "Opening group must include the discard-drawn card.")
        ELSE IF groupPointsThrows(action.cardIds) THEN Throw(st)
        ELSE IF groupPoints(action.cardIds) < OpenPoints THEN Err(st, "Need 51+ points to open.")
        ELSE IF Len(Hand(st, p)) - Len(action.cardIds) < 1 THEN Err(st, "Must keep one to discard.")
        ELSE IF validation.threw THEN Throw(st)
        ELSE IF ~validation.ok THEN Err(st, validation.error)
        ELSE IF ~removed.ok THEN Err(removed.state, "Card not in hand.")
        ELSE Ok([removed.state
                   EXCEPT !.tableMelds = @ \o <<Meld(newMeldId(st), p, validation)>>,
                          !.playersPublic[p].opened = TRUE,
                          !.phase = "DISCARD"])
  IN Open(validateMeld(dtoByIds(action.cardIds)), removeFromHand(st, p, action.cardIds))

\* lines 304-327
applyLAY_MELD(st, action) ==
  LET p == action.player
      Lay(validation, removed) ==
        IF st.phase # "ACTION" THEN Err(st, "Not in ACTION phase.")
        ELSE IF ~st.playersPublic[p].opened THEN Err(st, "Must open first.")
        ELSE IF Len(Hand(st, p)) - Len(action.cardIds) < 1 THEN Err(st, "Must keep one to discard.")
        ELSE IF validation.threw THEN Throw(st)
        ELSE IF ~validation.ok THEN Err(st, validation.error)
        ELSE IF ~removed.ok THEN Err(removed.state, "Card not in hand.")
        ELSE Ok([removed.state
                   EXCEPT !.tableMelds = @ \o <<Meld(newMeldId(st), p, validation)>>,
                          !.phase = "DISCARD"])
  IN Lay(validateMeld(dtoByIds(action.cardIds)), removeFromHand(st, p, action.cardIds))

\* ADD_TO_MELD that stores the new card order but keeps the meld's old jokerMap
applyADD_TO_MELD_oldJokerMap(st, action) ==
  LET p == action.player
      Validated(m, removed, validation) ==
        IF validation.threw THEN Throw(removed.state)
        ELSE IF ~validation.ok
          THEN Err(addBackToHand(removed.state, p, action.cardIds), validation.error)
        ELSE Ok([removed.state
                   EXCEPT !.tableMelds[m] =
                            [Meld(st.tableMelds[m].id, st.tableMelds[m].owner, validation)
                               EXCEPT !.jokerMap = st.tableMelds[m].jokerMap],
                          !.phase = "DISCARD"])
      Add(m, removed) ==
        IF st.phase # "ACTION" THEN Err(st, "Not in ACTION phase.")
        ELSE IF ~st.playersPublic[p].opened THEN Err(st, "Must open first.")
        ELSE IF m = 0 THEN Err(st, "Meld not found.")
        ELSE IF Len(Hand(st, p)) - Len(action.cardIds) < 1 THEN Err(st, "Must keep one to discard.")
        ELSE IF ~removed.ok THEN Err(removed.state, "Card not in hand.")
        ELSE Validated(m, removed, validateMeld(dtoByIds(st.tableMelds[m].cardIds \o action.cardIds)))
  IN Add(findMeld(st, action.meldId), removeFromHand(st, p, action.cardIds))

\* lines 329-358
applyADD_TO_MELD(st, action) ==
  LET p == action.player
      \* lines 339-357, with the outcome of validating the combined ids
      Validated(m, removed, validation) ==
        IF validation.threw THEN Throw(removed.state)
        ELSE IF ~validation.ok
          THEN Err(addBackToHand(removed.state, p, action.cardIds), validation.error)
        ELSE Ok([removed.state
                   EXCEPT !.tableMelds[m] = Meld(st.tableMelds[m].id, st.tableMelds[m].owner, validation),
                          !.phase = "DISCARD"])
      Add(m, removed) ==
        IF st.phase # "ACTION" THEN Err(st, "Not in ACTION phase.")
        ELSE IF ~st.playersPublic[p].opened THEN Err(st, "Must open first.")
        ELSE IF m = 0 THEN Err(st, "Meld not found.")
        ELSE IF Len(Hand(st, p)) - Len(action.cardIds) < 1 THEN Err(st, "Must keep one to discard.")
        ELSE IF ~removed.ok THEN Err(removed.state, "Card not in hand.")
        ELSE Validated(m, removed, validateMeld(dtoByIds(st.tableMelds[m].cardIds \o action.cardIds)))
  IN Add(findMeld(st, action.meldId), removeFromHand(st, p, action.cardIds))

\* meld.cardIds.map((id) => (id === from ? to : id))
replaceId(cardIds, from, to) ==
  [i \in 1..Len(cardIds) |-> IF cardIds[i] = from THEN to ELSE cardIds[i]]

\* SWAP_JOKER without the comparison of the replacement with the stored substitution
applySWAP_JOKER_anyValid(st, action) ==
  LET p == action.player
      \* lines 390-410, with the state after the swap and the revalidation
      Revalidated(m, swapped, validation) ==
        LET h == Hand(swapped, p)
            jIdx == IndexOf(h, action.jokerId)
        IN
        IF validation.threw THEN Throw(swapped)
        ELSE IF ~validation.ok
          THEN \* lines 394-400: rollback
               Err([WithHand(swapped, p,
                             (IF jIdx > 0 THEN RemoveAt(h, jIdx) ELSE h) \o <<action.replaceWithId>>)
                      EXCEPT !.tableMelds[m].cardIds =
                               replaceId(swapped.tableMelds[m].cardIds,
                                         action.replaceWithId, action.jokerId)],
                   validation.error)
        ELSE Ok([swapped EXCEPT !.tableMelds[m] =
                                  Meld(st.tableMelds[m].id, st.tableMelds[m].owner, validation)])
      \* lines 383-391: swap, give the joker to the player, revalidate
      Swapped(m, removed, swappedIds) ==
        Revalidated(m,
                    [WithHand(removed, p, Hand(removed, p) \o <<action.jokerId>>)
                       EXCEPT !.tableMelds[m].cardIds = swappedIds],
                    validateMeld(dtoByIds(swappedIds)))
      Swap(m, replaceDto, removed) ==
        IF st.phase # "ACTION" THEN Err(st, "Not in ACTION phase.")
        ELSE IF ~st.playersPublic[p].opened THEN Err(st, "Must open first.")
        ELSE IF m = 0 THEN Err(st, "Meld not found.")
        ELSE IF ~Includes(st.tableMelds[m].cardIds, action.jokerId) THEN Err(st, "Joker not in meld.")
        ELSE IF action.jokerId \notin DOMAIN st.tableMelds[m].jokerMap
          THEN Err(st, "This joker has no stored substitution.")
        ELSE IF IsUndefined(replaceDto) THEN Err(st, "Replacement card not found.")
        ELSE IF ~removed.ok THEN Err(removed.state, "Replacement card not in hand.")
        ELSE Swapped(m, removed.state,
                     replaceId(st.tableMelds[m].cardIds, action.jokerId, action.replaceWithId))
  IN Swap(findMeld(st, action.meldId), dto(action.replaceWithId),
          removeFromHand(st, p, <<action.replaceWithId>>))

\* SWAP_JOKER storing the revalidated meld without its joker substitutions
applySWAP_JOKER_noJokerMap(st, action) ==
  LET p == action.player
      \* lines 390-410, with the state after the swap and the revalidation
      Revalidated(m, swapped, validation) ==
        LET h == Hand(swapped, p)
            jIdx == IndexOf(h, action.jokerId)
        IN
        IF validation.threw THEN Throw(swapped)
        ELSE IF ~validation.ok
          THEN \* lines 394-400: rollback
               Err([WithHand(swapped, p,
                             (IF jIdx > 0 THEN RemoveAt(h, jIdx) ELSE h) \o <<action.replaceWithId>>)
                      EXCEPT !.tableMelds[m].cardIds =
                               replaceId(swapped.tableMelds[m].cardIds,
                                         action.replaceWithId, action.jokerId)],
                   validation.error)
        ELSE Ok([swapped EXCEPT !.tableMelds[m] =
                                  Meld_noJokerMap(st.tableMelds[m].id, st.tableMelds[m].owner, validation)])
      \* lines 383-391: swap, give the joker to the player, revalidate
      Swapped(m, removed, swappedIds) ==
        Revalidated(m,
                    [WithHand(removed, p, Hand(removed, p) \o <<action.jokerId>>)
                       EXCEPT !.tableMelds[m].cardIds = swappedIds],
                    validateMeld(dtoByIds(swappedIds)))
      Swap(m, replaceDto, removed) ==
        IF st.phase # "ACTION" THEN Err(st, "Not in ACTION phase.")
        ELSE IF ~st.playersPublic[p].opened THEN Err(st, "Must open first.")
        ELSE IF m = 0 THEN Err(st, "Meld not found.")
        ELSE IF ~Includes(st.tableMelds[m].cardIds, action.jokerId) THEN Err(st, "Joker not in meld.")
        ELSE IF action.jokerId \notin DOMAIN st.tableMelds[m].jokerMap
          THEN Err(st, "This joker has no stored substitution.")
        ELSE IF IsUndefined(replaceDto) THEN Err(st, "Replacement card not found.")
        ELSE IF \/ replaceDto.rank # st.tableMelds[m].jokerMap[action.jokerId].rank
                \/ replaceDto.suit # st.tableMelds[m].jokerMap[action.jokerId].suit
          THEN Err(st, "Replacement card does not match joker substitution.")
        ELSE IF ~removed.ok THEN Err(removed.state, "Replacement card not in hand.")
        ELSE Swapped(m, removed.state,
                     replaceId(st.tableMelds[m].cardIds, action.jokerId, action.replaceWithId))
  IN Swap(findMeld(st, action.meldId), dto(action.replaceWithId),
          removeFromHand(st, p, <<action.replaceWithId>>))

\* lines 360-411
applySWAP_JOKER(st, action) ==
  LET p == action.player
      \* lines 390-410, with the state after the swap and the revalidation
      Revalidated(m, swapped, validation) ==
        LET h == Hand(swapped, p)
            jIdx == IndexOf(h, action.jokerId)
        IN
        IF validation.threw THEN Throw(swapped)
        ELSE IF ~validation.ok
          THEN \* lines 394-400: rollback
               Err([WithHand(swapped, p,
                             (IF jIdx > 0 THEN RemoveAt(h, jIdx) ELSE h) \o <<action.replaceWithId>>)
                      EXCEPT !.tableMelds[m].cardIds =
                               replaceId(swapped.tableMelds[m].cardIds,
                                         action.replaceWithId, action.jokerId)],
                   validation.error)
        ELSE Ok([swapped EXCEPT !.tableMelds[m] =
                                  Meld(st.tableMelds[m].id, st.tableMelds[m].owner, validation)])
      \* lines 383-391: swap, give the joker to the player, revalidate
      Swapped(m, removed, swappedIds) ==
        Revalidated(m,
                    [WithHand(removed, p, Hand(removed, p) \o <<action.jokerId>>)
                       EXCEPT !.tableMelds[m].cardIds = swappedIds],
                    validateMeld(dtoByIds(swappedIds)))
      Swap(m, replaceDto, removed) ==
        IF st.phase # "ACTION" THEN Err(st, "Not in ACTION phase.")
        ELSE IF ~st.playersPublic[p].opened THEN Err(st, "Must open first.")
        ELSE IF m = 0 THEN Err(st, "Meld not found.")
        ELSE IF ~Includes(st.tableMelds[m].cardIds, action.jokerId) THEN Err(st, "Joker not in meld.")
        ELSE IF action.jokerId \notin DOMAIN st.tableMelds[m].jokerMap
          THEN Err(st, "This joker has no stored substitution.")
        ELSE IF IsUndefined(replaceDto) THEN Err(st, "Replacement card not found.")
        ELSE IF \/ replaceDto.rank # st.tableMelds[m].jokerMap[action.jokerId].rank
                \/ replaceDto.suit # st.tableMelds[m].jokerMap[action.jokerId].suit
          THEN Err(st, "Replacement card does not match joker substitution.")
        ELSE IF ~removed.ok THEN Err(removed.state, "Replacement card not in hand.")
        ELSE Swapped(m, removed.state,
                     replaceId(st.tableMelds[m].cardIds, action.jokerId, action.replaceWithId))
  IN Swap(findMeld(st, action.meldId), dto(action.replaceWithId),
          removeFromHand(st, p, <<action.replaceWithId>>))

\* PASS_ACTION leaving the phase as it is
applyPASS_ACTION_stay(st, action) ==
  IF st.phase # "ACTION" THEN Err(st, "Not in ACTION phase.")
  ELSE Ok(st)

\* PASS_ACTION without its phase check
applyPASS_ACTION_anyPhase(st, action) == Ok([st EXCEPT !.phase = "DISCARD"])

\* lines 413-417
applyPASS_ACTION(st, action) ==
  IF st.phase # "ACTION" THEN Err(st, "Not in ACTION phase.")
  ELSE Ok([st EXCEPT !.phase = "DISCARD"])

\* DISCARD that ends the game without recording the winner
applyDISCARD_noWinner(st, action) ==
  LET p == action.player
      Pushed(pushed) ==
        IF Len(Hand(pushed, p)) = 0
        THEN Ok([pushed EXCEPT !.phase = "GAME_OVER"])
        ELSE Ok(nextTurn(pushed))
      Discarded(removed) ==
        IF st.phase # "DISCARD" THEN Err(st, "Not in DISCARD phase.")
        ELSE IF Len(action.cardId) # 1 THEN Err(st, "Discard exactly one card.")
        ELSE IF ~removed.ok THEN Err(removed.state, "Card not in hand.")
        ELSE Pushed([removed.state EXCEPT !.discard = @ \o <<action.cardId[1]>>])
  IN Discarded(removeFromHand(st, p, <<action.cardId[1]>>))

\* DISCARD without the empty-hand branch: the turn always passes on
applyDISCARD_noWin(st, action) ==
  LET p == action.player
      Discarded(removed) ==
        IF st.phase # "DISCARD" THEN Err(st, "Not in DISCARD phase.")
        ELSE IF Len(action.cardId) # 1 THEN Err(st, "Discard exactly one card.")
        ELSE IF ~removed.ok THEN Err(removed.state, "Card not in hand.")
        ELSE Ok(nextTurn([removed.state EXCEPT !.discard = @ \o <<action.cardId[1]>>]))
  IN Discarded(removeFromHand(st, p, <<action.cardId[1]>>))

\* lines 419-436
applyDISCARD(st, action) ==
  LET p == action.player
      \* lines 426-435, with the state after state.discard.push(id)
      Pushed(pushed) ==
        IF Len(Hand(pushed, p)) = 0
        THEN Ok([pushed EXCEPT !.winner = p, !.phase = "GAME_OVER"])
        ELSE Ok(nextTurn(pushed))
      Discarded(removed) ==
        IF st.phase # "DISCARD" THEN Err(st, "Not in DISCARD phase.")
        ELSE IF Len(action.cardId) # 1 THEN Err(st, "Discard exactly one card.")
        ELSE IF ~removed.ok THEN Err(removed.state, "Card not in hand.")
        ELSE Pushed([removed.state EXCEPT !.discard = @ \o <<action.cardId[1]>>])
  IN Discarded(removeFromHand(st, p, <<action.cardId[1]>>))

\* lines 160-439
applyAction(st, action) ==
  IF ensurePlayer(st, action.player) # "" THEN Err(st, ensurePlayer(st, action.player))
  ELSE CASE action.type = "DRAW_DECK" -> applyDRAW_DECK(st, action)
         [] action.type = "DRAW_DISCARD" -> applyDRAW_DISCARD(st, action)
         [] action.type = "OPEN_MULTI" -> applyOPEN_MULTI(st, action)
         [] action.type = "OPEN_GROUP" -> applyOPEN_GROUP(st, action)
         [] action.type = "LAY_MELD" -> applyLAY_MELD(st, action)
         [] action.type = "ADD_TO_MELD" -> applyADD_TO_MELD(st, action)
         [] action.type = "SWAP_JOKER" -> applySWAP_JOKER(st, action)
         [] action.type = "PASS_ACTION" -> applyPASS_ACTION(st, action)
         [] action.type = "DISCARD" -> applyDISCARD(st, action)
         [] OTHER -> Err(st, "Unknown action.")

(***************************************************************************)
(* The state machine: one game, driven by callers that submit one action   *)
(* at a time and read its result.                                          *)
(***************************************************************************)

VARIABLES
  state,        \* the GameState object
  call,         \* the applyAction call whose result the caller holds, or NoCall
  steps,        \* the calls so far that changed the state object, to bound the run
  input,        \* the card ids handed to the validator or the candidate generator
  result        \* what the pure function applied last returned, or NoResult

vars == <<state, call, steps, input, result>>

\* No further action is submitted once this many calls have changed the state
MaxSteps == 9

\* The player count the application starts a game with
NumPlayers == 2

\* The deck makeShuffledDeck returns, as ids in deal order: the first 14 go to
\* player 0, the next 14 to player 1, the rest is the draw order (its last id is the
\* top): player 0 draws joker 30 first, player 1 then draws joker 29.
Deck == <<14>> \o [i \in 1..13 |-> i] \o [i \in 1..(Len(cardsById) - 14) |-> i + 14]

NoCall == [action |-> [type |-> "NONE", player |-> Null], ok |-> FALSE, error |-> "", threw |-> FALSE]

\* No pure function has been applied
NoResult == [op |-> "none", value |-> <<>>]

Init ==
  /\ state = initGame(NumPlayers, Deck)
  /\ call = NoCall
  /\ steps = 0
  /\ input = <<>>
  /\ result = NoResult

\* The acting player of a call: the seated players and one index that is not seated
Callers == 0..state.numPlayers

Run6 == <<1, 2, 3, 4, 5, 6>>

\* The cardIds lists a caller proposes to OPEN_GROUP, LAY_MELD and ADD_TO_MELD:
\* valid and invalid melds, lists below, of exactly and above 51 points, lists that
\* name an id twice, ids of another hand, an id without a card, the whole hand.  A
\* caller out of turn proposes two of them.
CardIdLists(p) ==
  IF p # state.currentTurn THEN {<<>>, Run6}
  ELSE { <<>>, Run6, <<2, 3, 4, 5, 6>>, Run6 \o <<30>>, Run6 \o <<30, 30>>,
         <<7, 8, 30>>, <<7, 8, 15>>, <<9, 10, 11>>, <<11, 9, 10>>, <<12, 30, 30>>,
         <<30>>, <<30, 30>>, <<29>>, <<15>>, <<9>>, <<9, 10>>,
         <<UnknownId>>, <<1, 2, UnknownId>>, <<16, 17, 18>>,
         <<1, 2, 3, 4, 5, 9>>, <<9, 9>>, Hand(state, p) }

\* The groups lists a caller proposes to OPEN_MULTI
GroupLists(p) ==
  IF p # state.currentTurn THEN {<<>>, <<Run6>>}
  ELSE { <<>>, <<<<>>>>, <<Run6>>, <<Run6, <<7, 8, 30>>>>,
         <<Run6, <<7, 8, 30>>, <<9, 10, 11, 12, 13>>>>,
         <<Run6, <<9, 10, 11>>>>, <<<<7, 8, 30>>, <<9, 10, 11>>>>,
         <<Run6, <<1, 7, 8>>>>, <<Run6, <<9, 10>>>>, <<Run6, <<9, 10, 12>>>>,
         <<Run6, <<16, 17, 18>>>>, <<Run6, <<10, 11, 30>>>>,
         <<Run6, <<10, 11, 29, 30>>>> }

\* The cardId lists a caller proposes to DISCARD: the first and the last card of
\* its hand, the 8 of spades when it holds it, no card, two cards, a card of no hand
\* of the caller, an id without a card
DiscardLists(p) ==
  (IF p < state.numPlayers /\ Hand(state, p) # <<>>
   THEN {<<Hand(state, p)[1]>>, <<Hand(state, p)[Len(Hand(state, p))]>>} ELSE {})
    \cup (IF p < state.numPlayers /\ Includes(Hand(state, p), 28) THEN {<<28>>} ELSE {})
    \cup {<<>>, <<7, 8>>, <<UnknownId>>}

\* The meld ids a caller names: those on the table and one that is not
MeldIds == 1..(Len(state.tableMelds) + 1)

JokerIds(p) == IF p # state.currentTurn THEN {30} ELSE {29, 30, 7}

\* The replacements a caller offers for a joker: 8H, 2H, 5H, 8S, an id without a card
ReplaceIds(p) == IF p # state.currentTurn THEN {15} ELSE {15, 9, 12, 28, UnknownId}

\* One applyAction call: the state object is mutated in place, the caller gets the
\* result.  A caller submits its next action after it has read the result.
Invoke(action) ==
  LET Returned(r) ==
        /\ state' = r.state
        /\ call' = [action |-> action, ok |-> r.ok, error |-> r.error, threw |-> r.threw]
        /\ steps' = IF r.state # state THEN steps + 1 ELSE steps
  IN /\ call = NoCall
     /\ steps < MaxSteps
     /\ Returned(applyAction(state, action))
     /\ UNCHANGED <<input, result>>

DRAW_DECK == \E p \in Callers : Invoke([type |-> "DRAW_DECK", player |-> p])

DRAW_DISCARD == \E p \in Callers : Invoke([type |-> "DRAW_DISCARD", player |-> p])

OPEN_GROUP ==
  \E p \in Callers : \E ids \in CardIdLists(p) :
    Invoke([type |-> "OPEN_GROUP", player |-> p, cardIds |-> ids])

OPEN_MULTI ==
  \E p \in Callers : \E groups \in GroupLists(p) :
    Invoke([type |-> "OPEN_MULTI", player |-> p, groups |-> groups])

LAY_MELD ==
  \E p \in Callers : \E ids \in CardIdLists(p) :
    Invoke([type |-> "LAY_MELD", player |-> p, cardIds |-> ids])

ADD_TO_MELD ==
  \E p \in Callers : \E meldId \in MeldIds, ids \in CardIdLists(p) :
    Invoke([type |-> "ADD_TO_MELD", player |-> p, meldId |-> meldId, cardIds |-> ids])

SWAP_JOKER ==
  \E p \in Callers : \E meldId \in MeldIds, jokerId \in JokerIds(p), replaceWithId \in ReplaceIds(p) :
    Invoke([type |-> "SWAP_JOKER", player |-> p, meldId |-> meldId,
            jokerId |-> jokerId, replaceWithId |-> replaceWithId])

PASS_ACTION == \E p \in Callers : Invoke([type |-> "PASS_ACTION", player |-> p])

DISCARD ==
  \E p \in Callers : \E ids \in DiscardLists(p) :
    Invoke([type |-> "DISCARD", player |-> p, cardId |-> ids])

\* The caller has read the result (App.tsx handleAction)
Return ==
  /\ call # NoCall
  /\ call' = NoCall
  /\ UNCHANGED <<state, steps, input, result>>

Next ==
  \/ DRAW_DECK
  \/ DRAW_DISCARD
  \/ OPEN_GROUP
  \/ OPEN_MULTI
  \/ LAY_MELD
  \/ ADD_TO_MELD
  \/ SWAP_JOKER
  \/ PASS_ACTION
  \/ DISCARD
  \/ Return

Spec == Init /\ [][Next]_vars

\* Another deck makeShuffledDeck can return: player 0 is dealt both jokers with the
\* spade run and the hearts, the draw order is 7D under 8D.
DeckJokers ==
  <<7, 1, 2, 3, 4, 5, 6, 9, 10, 11, 12, 13, 29, 30>> \o [i \in 1..14 |-> i + 14] \o <<14, 8>>

InitJokers ==
  /\ state = initGame(NumPlayers, DeckJokers)
  /\ call = NoCall
  /\ steps = 0
  /\ input = <<>>
  /\ result = NoResult

\* The game of two players on the deck that deals both jokers to player 0
SpecJokers == InitJokers /\ [][Next]_vars

(***************************************************************************)
(* The pure functions on their own: the validator, the candidate generator *)
(* (src/src/engine/gameUtils.ts) and the deck factory (deckFactory.ts),    *)
(* applied to inputs drawn from a table of sample cards.                   *)
(***************************************************************************)

\* temp.map((id) => cardsById[id])
dtosOf(ids, byId) ==
  [i \in 1..Len(ids) |->
     IF ids[i] \in DOMAIN byId
     THEN [id |-> ids[i], suit |-> byId[ids[i]].suit, rank |-> byId[ids[i]].rank]
     ELSE Undefined]

\* GameUtils.combine: the entries the call pushes to out, in the order it pushes
\* them.  start is the position in handIds the loop starts at (from 1).  With temp
\* shorter than size, iteration start goes on with handIds[start] pushed to temp,
\* and the later iterations with it popped again.
RECURSIVE combine(_, _, _, _, _)
combine(handIds, size, start, temp, byId) ==
  IF Len(temp) = size
  THEN IF validateMeld(dtosOf(temp, byId)).ok THEN <<temp>> ELSE <<>>
  ELSE IF start > Len(handIds) THEN <<>>
  ELSE combine(handIds, size, start + 1, Append(temp, handIds[start]), byId)
       \o combine(handIds, size, start + 1, temp, byId)

\* The loop of findValidMeldsById over the sizes from size on
RECURSIVE combineSizes(_, _, _)
combineSizes(handIds, size, byId) ==
  IF size > Len(handIds) THEN <<>>
  ELSE combine(handIds, size, 1, <<>>, byId) \o combineSizes(handIds, size + 1, byId)

\* findValidMeldsById with the loop over the sizes stopping one short of the hand
RECURSIVE combineSizes_noFullHand(_, _, _)
combineSizes_noFullHand(handIds, size, byId) ==
  IF size >= Len(handIds) THEN <<>>
  ELSE combine(handIds, size, 1, <<>>, byId) \o combineSizes_noFullHand(handIds, size + 1, byId)

findValidMeldsById_noFullHand(handIds, byId) == combineSizes_noFullHand(handIds, 3, byId)

findValidMeldsById(handIds, byId) == combineSizes(handIds, 3, byId)

\* Object.values(Suit) and Object.values(Rank)
Suits == <<"CLUBS", "DIAMONDS", "HEARTS", "SPADES", "JOKER">>

Ranks ==
  <<"TWO", "THREE", "FOUR", "FIVE", "SIX", "SEVEN", "EIGHT", "NINE", "TEN", "JACK", "QUEEN",
    "KING", "ACE", "JOKER">>

\* The loops of lines 19-27 for the given number of decks: every suit but JOKER
\* with every rank but JOKER, in that order.  uid() returns a random string; it is
\* modelled as a fresh id, the position at which the card is pushed.
normalCards(decks) ==
  LET suits == SelectSeq(Suits, LAMBDA x : x # "JOKER")
      ranks == SelectSeq(Ranks, LAMBDA x : x # "JOKER")
  IN [k \in 1..(decks * Len(suits) * Len(ranks)) |->
        [id |-> k,
         suit |-> suits[(((k - 1) \div Len(ranks)) % Len(suits)) + 1],
         rank |-> ranks[((k - 1) % Len(ranks)) + 1]]]

\* lines 29-30
withJokers(out) ==
  out \o <<[id |-> Len(out) + 1, suit |-> "JOKER", rank |-> "JOKER"],
           [id |-> Len(out) + 2, suit |-> "JOKER", rank |-> "JOKER"]>>

\* Math.floor(Math.random() * (i + 1)) for three sources of randomness: one that
\* always returns 0, one that returns just under 1, one that returns 0.5
RandomSources == {"low", "high", "half"}

randomIndex(rnd, i) ==
  CASE rnd = "low" -> 0
    [] rnd = "high" -> i
    [] OTHER -> (i + 1) \div 2

\* [arr[i], arr[j]] = [arr[j], arr[i]], indices from 0 as in the source
swap(arr, i, j) == [arr EXCEPT ![i + 1] = arr[j + 1], ![j + 1] = arr[i + 1]]

\* arr after the iterations hi, hi - 1, ..., lo of the loop of shuffleInPlace, in
\* that order: the upper half of the iterations first, then the lower half on the
\* array that the upper half left
RECURSIVE shuffleFrom(_, _, _, _)
shuffleFrom(arr, hi, lo, rnd) ==
  IF hi < lo THEN arr
  ELSE IF hi = lo THEN swap(arr, hi, randomIndex(rnd, hi))
  ELSE LET mid == (hi + lo) \div 2
       IN CHOOSE done \in {shuffleFrom(upper, mid, lo, rnd) :
                              upper \in {shuffleFrom(arr, hi, mid + 1, rnd)}} : TRUE

shuffleInPlace(arr, rnd) == shuffleFrom(arr, Len(arr) - 1, 1, rnd)

\* makeShuffledDeck with one deck of normal cards instead of two
makeShuffledDeck_oneDeck(rnd) == shuffleInPlace(withJokers(normalCards(1)), rnd)

makeShuffledDeck(rnd) == shuffleInPlace(withJokers(normalCards(2)), rnd)

\* The sample cards: ace to four, queen and king of spades, a second two of spades,
\* the twos of the other suits, two jokers, and the spades from five to jack
SampleCardsById ==
  <<Card("SPADES", "ACE"), Card("SPADES", "TWO"), Card("SPADES", "THREE"),
    Card("SPADES", "FOUR"), Card("SPADES", "QUEEN"), Card("SPADES", "KING"),
    Card("SPADES", "TWO"), Card("HEARTS", "TWO"), Card("DIAMONDS", "TWO"),
    Card("CLUBS", "TWO"), Card("JOKER", "JOKER"), Card("JOKER", "JOKER"),
    Card("SPADES", "FIVE"), Card("SPADES", "SIX"), Card("SPADES", "SEVEN"),
    Card("SPADES", "EIGHT"), Card("SPADES", "NINE"), Card("SPADES", "TEN"),
    Card("SPADES", "JACK")>>

\* The longest list of which every ordering is an input
MaxCards == 4

\* The sample ids the lists given in every ordering are made of
ShortIds == 1..12

\* The inputs: every list of up to MaxCards distinct ids of ShortIds in every order,
\* and some longer lists, the thirteen spades among them
InputLists ==
  {ids \in UNION {[1..n -> ShortIds] : n \in 0..MaxCards} :
     \A i, j \in 1..Len(ids) : i # j => ids[i] # ids[j]}
    \cup { <<1, 2, 3, 4, 11>>, <<11, 4, 12, 2, 3>>, <<12, 6, 11, 5, 1>>, <<1, 2, 3, 4, 5, 6>>,
           <<6, 1, 2, 11, 12>>, <<8, 9, 10, 2, 11>>, <<2, 3, 4, 8, 9, 10>>,
           <<6, 1, 2, 3, 4, 13, 14, 15, 16, 17, 18, 19, 5>> }

InitPure ==
  /\ state = initGame(NumPlayers, Deck)
  /\ call = NoCall
  /\ steps = 0
  /\ input \in InputLists
  /\ result = NoResult

\* GroupValidator.validateMeld on the cards of the input
Validate ==
  /\ result.op = "none"
  /\ result' = [op |-> "validateMeld", value |-> validateMeld(dtosOf(input, SampleCardsById))]
  /\ UNCHANGED <<state, call, steps, input>>

\* GameUtils.findValidMeldsById with the input as the hand
FindValidMelds ==
  /\ result.op = "none"
  /\ result' = [op |-> "findValidMeldsById",
                value |-> findValidMeldsById(input, SampleCardsById)]
  /\ UNCHANGED <<state, call, steps, input>>

\* makeShuffledDeck; it takes no argument
MakeShuffledDeck ==
  /\ result.op = "none"
  /\ input = <<>>
  /\ \E rnd \in RandomSources :
       result' = [op |-> "makeShuffledDeck", value |-> makeShuffledDeck(rnd)]
  /\ UNCHANGED <<state, call, steps, input>>

NextPure ==
  \/ Validate
  \/ FindValidMelds
  \/ MakeShuffledDeck

SpecPure == InitPure /\ [][NextPure]_vars

(***************************************************************************)
(* The bot (src/src/engine/bot.ts): one botStep call for the player whose  *)
(* turn it is, as the auto-play loop of App.tsx makes it.                  *)
(***************************************************************************)

\* No botStep in phase ACTION is taken on a hand of more cards than this (the
\* candidate search is exponential in the hand)
MaxBotHand == 6

\* ids.reduce((s, id) => s + toCard(state, id).getValue(), 0)
points(ids) == groupPoints(ids)

\* melds.filter((m) => m.includes(last)).filter((m) => points(m) >= 51)
openCandidates(melds, last) ==
  Pick(melds, {i \in 1..Len(melds) : Includes(melds[i], last) /\ points(melds[i]) >= 51})

\* openCandidates.sort((a, b) => points(b) - points(a))[0]
bestOpenCandidate(candidates) ==
  SortByKeys(candidates, [i \in 1..Len(candidates) |-> 0 - points(candidates[i])])[1]

\* melds.sort((a, b) => (b.length - a.length) || (points(b) - points(a)))[0]: the
\* longest meld, of those the one of most points, of those the first
bestMeld(melds) ==
  LET first == CHOOSE i \in 1..Len(melds) :
                 \A j \in 1..Len(melds) :
                   \/ Len(melds[j]) < Len(melds[i])
                   \/ Len(melds[j]) = Len(melds[i]) /\ points(melds[j]) < points(melds[i])
                   \/ Len(melds[j]) = Len(melds[i]) /\ points(melds[j]) = points(melds[i]) /\ i <= j
  IN melds[first]

\* The loop of lines 64-72: the first position of the hand with the highest value;
\* position 0 of an empty hand holds no id
bestDiscard(handIds) ==
  IF handIds = <<>> THEN Null
  ELSE LET v(i) == getValue(dto(handIds[i]).rank)
           bestIdx == CHOOSE i \in 1..Len(handIds) :
                        /\ \A j \in 1..Len(handIds) : v(j) <= v(i)
                        /\ \A j \in 1..(i - 1) : v(j) < v(i)
       IN handIds[bestIdx]

\* The action botStep submits to applyAction in the phases DRAW, ACTION and DISCARD
botAction(st, botId) ==
  LET handIds == Hand(st, botId)
      last == st.lastDrawnCardId
      pass == [type |-> "PASS_ACTION", player |-> botId]
      Open(candidates) ==
        IF candidates = <<>> THEN pass
        ELSE [type |-> "OPEN_GROUP", player |-> botId, cardIds |-> bestOpenCandidate(candidates)]
      Act(melds) ==
        IF ~st.playersPublic[botId].opened
        THEN IF last = Null THEN pass ELSE Open(openCandidates(melds, last))
        ELSE IF melds = <<>> THEN pass
        ELSE [type |-> "LAY_MELD", player |-> botId, cardIds |-> bestMeld(melds)]
  IN CASE st.phase = "DRAW" -> [type |-> "DRAW_DECK", player |-> botId]
       [] st.phase = "ACTION" -> Act(findValidMeldsById(handIds, cardsById))
       [] OTHER -> [type |-> "DISCARD", player |-> botId, cardId |-> <<bestDiscard(handIds)>>]

\* botStep(state, botId): toCard reads .suit of undefined for an id without a card
botStep(st, botId) ==
  IF st.currentTurn # botId THEN Err(st, "Not bot turn.")
  ELSE IF st.phase = "GAME_OVER" THEN Err(st, "Game over.")
  ELSE IF st.phase = "DRAW" THEN applyAction(st, botAction(st, botId))
  ELSE IF \E i \in 1..Len(Hand(st, botId)) : IsUndefined(dto(Hand(st, botId)[i])) THEN Throw(st)
  ELSE applyAction(st, botAction(st, botId))

\* One pass of the auto-play loop: botStep(state, state.currentTurn) while the game
\* is not over; the loop reads the result before it calls again.
BotStep ==
  LET Stepped(action, r) ==
        /\ state' = r.state
        /\ call' = [action |-> action, ok |-> r.ok, error |-> r.error, threw |-> r.threw]
        /\ steps' = IF r.state # state THEN steps + 1 ELSE steps
  IN /\ call = NoCall
     /\ steps < MaxSteps
     /\ state.phase # "GAME_OVER"
     /\ state.phase = "ACTION" => Len(Hand(state, state.currentTurn)) <= MaxBotHand
     /\ Stepped(botAction(state, state.currentTurn), botStep(state, state.currentTurn))
     /\ UNCHANGED <<input, result>>

NextBot ==
  \/ Next
  \/ BotStep

\* The game of two players in which any call may be the bot's
SpecBot == Init /\ [][NextBot]_vars

(***************************************************************************)
(* Properties                                                              *)
(***************************************************************************)

\* A step that is one applyAction call: state is the state before the call, state'
\* the state after it, call' the action and its result.
Invoked == call = NoCall /\ call' # NoCall

Seated(st) == 0..(st.numPlayers - 1)

\* The ids in the seated players' hands, the draw order, the discard pile and the
\* table melds, as one sequence
RECURSIVE HandIds(_, _)
HandIds(st, p) == IF p >= st.numPlayers THEN <<>> ELSE Hand(st, p) \o HandIds(st, p + 1)

RECURSIVE MeldIdsFrom(_, _)
MeldIdsFrom(st, i) ==
  IF i > Len(st.tableMelds) THEN <<>> ELSE st.tableMelds[i].cardIds \o MeldIdsFrom(st, i + 1)

Ledger(st) == HandIds(st, 0) \o st.drawOrder \o st.discard \o MeldIdsFrom(st, 1)

Occurrences(s, x) == Cardinality({i \in 1..Len(s) : s[i] = x})

\* C1: card conservation: in every reachable state the hands, the draw order, the
\* discard pile and the table melds together hold every id of the dealt population
\* exactly once.
C1_Conservation ==
  /\ \A id \in CardIDs : Occurrences(Ledger(state), id) = 1
  /\ Len(Ledger(state)) = Cardinality(CardIDs)

PhaseAllows(phase, type) ==
  CASE phase = "DRAW" -> type \in {"DRAW_DECK", "DRAW_DISCARD"}
    [] phase = "ACTION" ->
         type \in {"OPEN_GROUP", "OPEN_MULTI", "LAY_MELD", "ADD_TO_MELD", "SWAP_JOKER", "PASS_ACTION"}
    [] phase = "DISCARD" -> type = "DISCARD"
    [] OTHER -> FALSE

\* C2: phase gating: a call returns ok:true only if its action type belongs to the
\* phase the state is in (DRAW: the two draws; ACTION: opening, meld and pass
\* actions; DISCARD: DISCARD; GAME_OVER: nothing), and only for the current player.
C2_PhaseGating ==
  [][(Invoked /\ call'.ok) =>
       /\ PhaseAllows(state.phase, call'.action.type)
       /\ call'.action.player = state.currentTurn]_vars

\* C2 witness: an action accepted in phase ACTION that leaves the phase ACTION
C2_Witness == call.ok /\ call.action.type = "SWAP_JOKER" /\ state.phase = "ACTION"

\* C3: turn guard: a call whose player is not currentTurn is rejected with
\* "Not your turn.", whatever the action type, and the state is unchanged.
C3_TurnGuard ==
  [][(Invoked /\ call'.action.player # state.currentTurn) =>
       /\ ~call'.ok /\ ~call'.threw
       /\ call'.error = "Not your turn."
       /\ state' = state]_vars

\* C3 witness: a seated player out of turn was rejected while the current player
\* was in phase ACTION
C3_Witness ==
  /\ call.error = "Not your turn."
  /\ call.action.type = "PASS_ACTION"
  /\ call.action.player \in Seated(state)
  /\ state.phase = "ACTION"

\* C4 as stated: once phase = GAME_OVER every call, by the winner or by any other
\* player, fails with "Game is over." and leaves the state unchanged.
C4_GameOverAsStated ==
  [][(Invoked /\ state.phase = "GAME_OVER") =>
       /\ ~call'.ok
       /\ call'.error = "Game is over."
       /\ state' = state]_vars

\* C4 amended: once phase = GAME_OVER every call fails and leaves the state
\* unchanged; the error is "Game is over." for the current player (the winner) and
\* "Not your turn." for every other acting player.
C4_GameOver ==
  [][(Invoked /\ state.phase = "GAME_OVER") =>
       /\ ~call'.ok /\ ~call'.threw
       /\ call'.error = (IF call'.action.player = state.currentTurn
                         THEN "Game is over." ELSE "Not your turn.")
       /\ state' = state]_vars

\* C4 witness: the winner's call after the game is over
C4_Witness ==
  /\ state.phase = "GAME_OVER"
  /\ call.error = "Game is over."
  /\ call.action.player = state.winner

\* The one rejection that comes after the hand was changed: validateMeld failing in
\* ADD_TO_MELD or SWAP_JOKER (the rollback branches)
FailedAfterRemoval(c) ==
  /\ c.action.type \in {"ADD_TO_MELD", "SWAP_JOKER"}
  /\ c.error = "Not a valid set or run."

\* C5: non-mutating rejection: a call that returns ok:false at a precondition check
\* leaves every field of the state, the order of every hand and pile included, as
\* it was.
C5_RejectionKeepsState ==
  [][(Invoked /\ ~call'.ok /\ ~call'.threw /\ ~FailedAfterRemoval(call')) =>
       state' = state]_vars

\* C5 witness: an opening of 50 points was rejected
C5_Witness ==
  /\ call.error = "Need 51+ points to open."
  /\ call.action.type = "OPEN_GROUP"
  /\ call.action.cardIds # <<>>

\* C6: rollback atomicity: an ADD_TO_MELD or SWAP_JOKER that fails validateMeld
\* leaves the actor's hand (ids, order, handCount) and the table melds as before.
C6_RollbackAtomic ==
  [][(Invoked /\ ~call'.ok /\ FailedAfterRemoval(call')) =>
       /\ state'.playersPrivate = state.playersPrivate
       /\ state'.playersPublic = state.playersPublic
       /\ state'.tableMelds = state.tableMelds]_vars

\* C7: applyAction never throws: every call returns a result value.
C7_NeverThrows == ~call.threw

\* C8: win: a successful DISCARD that empties the actor's hand sets winner to the
\* actor and phase to GAME_OVER and keeps currentTurn; and no other call changes
\* winner or moves the phase to GAME_OVER.
C8_Win ==
  [][Invoked =>
       LET p == call'.action.player
           winning == /\ call'.ok
                      /\ call'.action.type = "DISCARD"
                      /\ Hand(state', p) = <<>>
       IN /\ winning =>
               /\ state'.winner = p
               /\ state'.phase = "GAME_OVER"
               /\ state'.currentTurn = state.currentTurn
          /\ (state'.winner # state.winner \/ (state'.phase = "GAME_OVER" /\ state.phase # "GAME_OVER"))
               => winning]_vars

\* C8 witness: the game was won by a DISCARD
C8_Witness ==
  /\ call.ok /\ call.action.type = "DISCARD"
  /\ state.phase = "GAME_OVER"
  /\ state.winner = call.action.player

\* C9: turn rotation: a successful DISCARD of c that leaves the hand non-empty
\* removes c from the actor's hand, puts c on top of the discard pile, moves
\* currentTurn to (currentTurn + 1) mod numPlayers, sets phase DRAW and clears
\* lastDrawnCardId and lastDrawSource; a DISCARD of no or several ids is rejected.
C9_TurnRotation ==
  [][(Invoked /\ call'.action.type = "DISCARD") =>
       LET p == call'.action.player
           ids == call'.action.cardId
       IN /\ Len(ids) # 1 => ~call'.ok
          /\ (call'.ok /\ Hand(state', p) # <<>>) =>
               /\ Hand(state', p) = RemoveAt(Hand(state, p), IndexOf(Hand(state, p), ids[1]))
               /\ Includes(Hand(state, p), ids[1])
               /\ state'.discard = state.discard \o <<ids[1]>>
               /\ state'.currentTurn = (state.currentTurn + 1) % state.numPlayers
               /\ state'.phase = "DRAW"
               /\ state'.lastDrawnCardId = Null
               /\ state'.lastDrawSource = "null"]_vars

\* C9 witness: the last seated player discarded and the turn went back to player 0
C9_Witness ==
  /\ call.ok /\ call.action.type = "DISCARD"
  /\ call.action.player = state.numPlayers - 1
  /\ state.currentTurn = 0
  /\ state.phase = "DRAW"

\* C10: DRAW_DECK by the current player in phase DRAW: with a non-empty draw order
\* it moves the top (last) id to the actor's hand, records it with source DECK,
\* sets phase ACTION and leaves the discard pile, other hands and melds alone; with
\* an empty draw order it fails "Deck empty." and changes nothing, whatever the
\* discard pile holds.
C10_DrawDeck ==
  [][(Invoked /\ call'.action.type = "DRAW_DECK"
        /\ call'.action.player = state.currentTurn /\ state.phase = "DRAW") =>
       LET p == call'.action.player
           n == Len(state.drawOrder)
       IN IF n = 0
          THEN ~call'.ok /\ call'.error = "Deck empty." /\ state' = state
          ELSE /\ call'.ok
               /\ state'.drawOrder = SubSeq(state.drawOrder, 1, n - 1)
               /\ Hand(state', p) = Hand(state, p) \o <<state.drawOrder[n]>>
               /\ state'.lastDrawnCardId = state.drawOrder[n]
               /\ state'.lastDrawSource = "DECK"
               /\ state'.phase = "ACTION"
               /\ state'.discard = state.discard
               /\ state'.tableMelds = state.tableMelds
               /\ \A q \in PlayerIDs \ {p} : Hand(state', q) = Hand(state, q)]_vars

\* C10 witness: the deck was empty while the discard pile was not
C10_Witness ==
  /\ call.error = "Deck empty."
  /\ call.action.type = "DRAW_DECK"
  /\ state.discard # <<>>

\* The result of a call as the caller sees it, next to the record of the call made
SameResult(c, r) == c.ok = r.ok /\ c.error = r.error /\ c.threw = r.threw

\* C11: DRAW_DISCARD degradation: when the actor has not opened, or has opened but
\* the discard pile is empty, DRAW_DISCARD gives the result and the successor state
\* that DRAW_DECK gives from the same state: the top of the draw order goes to the
\* hand, the discard pile is untouched and lastDrawSource is DECK, or the call fails
\* "Deck empty." and changes nothing.  The second conjunct applies the reducer to
\* the state with its discard pile emptied, the case of an opened actor.
C11_DrawDiscardDegrades ==
  [][(Invoked /\ call'.action.type = "DRAW_DISCARD") =>
       LET p == call'.action.player
           deck == [type |-> "DRAW_DECK", player |-> p]
           AsDeck(r) ==
             /\ SameResult(call', r)
             /\ state' = r.state
             /\ (p = state.currentTurn /\ state.phase = "DRAW") =>
                  IF state.drawOrder = <<>>
                  THEN ~call'.ok /\ call'.error = "Deck empty." /\ state' = state
                  ELSE /\ call'.ok
                       /\ Hand(state', p) = Hand(state, p) \o <<state.drawOrder[Len(state.drawOrder)]>>
                       /\ state'.discard = state.discard
                       /\ state'.lastDrawSource = "DECK"
           Alike(r, q) == r = q
           emptied == [state EXCEPT !.discard = <<>>]
       IN /\ (~state.playersPublic[p].opened \/ state.discard = <<>>) =>
               AsDeck(applyAction(state, deck))
          /\ Alike(applyAction(emptied, call'.action), applyAction(emptied, deck))]_vars

\* C11 witness: an unopened player asked for the top of a non-empty discard pile and
\* was given the top of the draw order
C11_Witness ==
  /\ call.ok /\ call.action.type = "DRAW_DISCARD"
  /\ ~state.playersPublic[call.action.player].opened
  /\ state.discard # <<>>
  /\ state.lastDrawSource = "DECK"
  /\ state.lastDrawnCardId = Hand(state, call.action.player)[Len(Hand(state, call.action.player))]

\* C12: DRAW_DISCARD by an opened current player in phase DRAW over a non-empty
\* discard pile takes exactly the top (last) id of the pile, appends it to the
\* actor's hand, sets lastDrawnCardId to it and lastDrawSource to DISCARD, sets
\* phase ACTION and leaves the draw order and deckCount unchanged.
C12_DrawDiscard ==
  [][(Invoked /\ call'.action.type = "DRAW_DISCARD"
        /\ call'.action.player = state.currentTurn /\ state.phase = "DRAW"
        /\ state.playersPublic[call'.action.player].opened
        /\ state.discard # <<>>) =>
       LET p == call'.action.player
           n == Len(state.discard)
       IN /\ call'.ok
          /\ state'.discard = SubSeq(state.discard, 1, n - 1)
          /\ Hand(state', p) = Hand(state, p) \o <<state.discard[n]>>
          /\ state'.playersPublic[p].handCount = state.playersPublic[p].handCount + 1
          /\ state'.lastDrawnCardId = state.discard[n]
          /\ state'.lastDrawSource = "DISCARD"
          /\ state'.phase = "ACTION"
          /\ state'.drawOrder = state.drawOrder
          /\ state'.deckCount = state.deckCount
          /\ state'.tableMelds = state.tableMelds
          /\ \A q \in PlayerIDs \ {p} : Hand(state', q) = Hand(state, q)]_vars

\* C12 witness: an opened player took the top of a discard pile of two or more
C12_Witness ==
  /\ call.ok /\ call.action.type = "DRAW_DISCARD"
  /\ state.lastDrawSource = "DISCARD"
  /\ state.discard # <<>>
  /\ state.lastDrawnCardId # Null
  /\ Hand(state, call.action.player)[Len(Hand(state, call.action.player))] = state.lastDrawnCardId

Opening == {"OPEN_GROUP", "OPEN_MULTI"}

\* The card ids an opening proposes, in the order proposed
Proposed(action) == IF action.type = "OPEN_MULTI" THEN Flat(action.groups) ELSE action.cardIds

\* The groups an opening proposes
Groups(action) == IF action.type = "OPEN_MULTI" THEN action.groups ELSE <<action.cardIds>>

Distinct(ids) == Cardinality(Range(ids)) = Len(ids)

\* The point values as C13 states them: a joker 0, TEN to ACE 10, TWO to NINE the
\* number
PointValue(rank) ==
  IF rank = "JOKER" THEN 0
  ELSE IF rank \in {"TEN", "JACK", "QUEEN", "KING", "ACE"} THEN 10
  ELSE IndexOf(<<"TWO", "THREE", "FOUR", "FIVE", "SIX", "SEVEN", "EIGHT", "NINE">>, rank) + 1

RECURSIVE Points(_)
Points(ids) == IF ids = <<>> THEN 0 ELSE PointValue(cardsById[Head(ids)].rank) + Points(Tail(ids))

\* C13: opening threshold: OPEN_GROUP and OPEN_MULTI succeed only if the proposed
\* cards total 51 points or more; a proposal of fewer points fails and leaves the
\* state (the hand, the actor unopened) as it was, and the error is "Need 51+ points
\* to open." whenever the proposal comes from the current, unopened player in phase
\* ACTION, who drew from the deck and proposes at least one group of distinct cards
\* of the hand that leave a card to discard.
C13_OpenThreshold ==
  [][(Invoked /\ call'.action.type \in Opening
        /\ \A i \in 1..Len(Proposed(call'.action)) : Proposed(call'.action)[i] \in CardIDs) =>
       LET p == call'.action.player
           Threshold(ids, pts) ==
             /\ call'.ok => pts >= 51
             /\ pts < 51 =>
                  /\ ~call'.ok /\ ~call'.threw
                  /\ state' = state
                  /\ Hand(state', p) = Hand(state, p)
                  /\ state'.playersPublic[p].opened = state.playersPublic[p].opened
             /\ (/\ pts < 51
                 /\ p = state.currentTurn /\ state.phase = "ACTION"
                 /\ ~state.playersPublic[p].opened
                 /\ state.lastDrawSource # "DISCARD"
                 /\ call'.action.type = "OPEN_MULTI" =>
                      /\ call'.action.groups # <<>>
                      /\ Distinct(ids)
                      /\ \A i \in 1..Len(ids) : Includes(Hand(state, p), ids[i])
                      /\ Len(Hand(state, p)) - Len(ids) >= 1)
                => call'.error = "Need 51+ points to open."
             /\ pts >= 51 => call'.error # "Need 51+ points to open."
       IN Threshold(Proposed(call'.action), Points(Proposed(call'.action)))]_vars

\* C13 witness: two valid melds of 25 points together were refused as an opening
C13_Witness ==
  /\ call.action.type = "OPEN_MULTI"
  /\ call.error = "Need 51+ points to open."
  /\ Len(call.action.groups) = 2
  /\ ~state.playersPublic[call.action.player].opened

\* Exactly the cards of ids have left the hand h, which is now h2: every id is in
\* h as often as it is in h2 and in ids together
Left(h, h2, ids) ==
  \A id \in Range(h) \cup Range(h2) \cup Range(ids) :
    Occurrences(h2, id) + Occurrences(ids, id) = Occurrences(h, id)

\* The meld m carries the fields validateMeld gave for a group
Canonical(m, v) ==
  /\ m.cardIds = v.orderedIds
  /\ m.kind = v.kind
  /\ m.aceMode = v.aceMode
  /\ m.jokerMap = v.jokerMap

\* C14: opening effect: OPEN_GROUP and OPEN_MULTI succeed only for an unopened
\* actor in phase ACTION when every group on its own passes validateMeld and the
\* actor keeps at least one card; on success exactly the proposed cards leave the
\* actor's hand, exactly one new meld per group is appended with owner = actor and
\* cardIds, kind, aceMode and jokerMap as validateMeld gave them for that group, the
\* actor becomes opened and the phase becomes DISCARD.
C14_OpeningEffect ==
  [][(Invoked /\ call'.action.type \in Opening /\ call'.ok) =>
       LET p == call'.action.player
           n == Len(state.tableMelds)
           Effect(ids, groups) ==
             /\ ~state.playersPublic[p].opened
             /\ state.phase = "ACTION"
             /\ Len(Hand(state, p)) - Len(ids) >= 1
             /\ \A i \in 1..Len(ids) : Includes(Hand(state, p), ids[i])
             /\ Left(Hand(state, p), Hand(state', p), ids)
             /\ \A q \in PlayerIDs \ {p} : Hand(state', q) = Hand(state, q)
             /\ Len(state'.tableMelds) = n + Len(groups)
             /\ SubSeq(state'.tableMelds, 1, n) = state.tableMelds
             /\ \A g \in 1..Len(groups) :
                  /\ validateMeld(dtoByIds(groups[g])).ok
                  /\ state'.tableMelds[n + g].owner = p
                  /\ Canonical(state'.tableMelds[n + g], validateMeld(dtoByIds(groups[g])))
             /\ state'.playersPublic[p].opened
             /\ state'.phase = "DISCARD"
       IN Effect(Proposed(call'.action), Groups(call'.action))]_vars

\* C15: opening duplicate rule: an OPEN_GROUP or OPEN_MULTI proposal in which the
\* same card id occurs more than once, inside one group or across groups, is
\* rejected and changes nothing.
C15_DuplicateRejected ==
  [][(Invoked /\ call'.action.type \in Opening /\ ~Distinct(Proposed(call'.action))) =>
       /\ ~call'.ok
       /\ state' = state]_vars

\* The two errors that end in "must include the discard-drawn card."
DiscardDrawnErrors ==
  {"Opening group must include the discard-drawn card.",
   "Opening must include the discard-drawn card."}

\* C16: discard-drawn inclusion: whenever OPEN_GROUP or OPEN_MULTI succeeds in a
\* state where lastDrawSource = DISCARD, the proposed cards include
\* lastDrawnCardId; an unopened actor who drew X from the discard pile and proposes
\* an opening without X is rejected with an error ending in "must include the
\* discard-drawn card."; there is no such requirement when lastDrawSource = DECK.
\* The third conjunct is about the reducer applied to the state of an unopened
\* actor in phase ACTION with the draw recorded as one from the discard pile.
C16_DiscardDrawnIncluded ==
  [][(Invoked /\ call'.action.type \in Opening) =>
       LET p == call'.action.player
           x == state.lastDrawnCardId
           asDrawn == [state EXCEPT !.lastDrawSource = "DISCARD"]
           Rule(ids, r) ==
             /\ (call'.ok /\ state.lastDrawSource = "DISCARD") => Includes(ids, x)
             /\ state.lastDrawSource # "DISCARD" => call'.error \notin DiscardDrawnErrors
             /\ (/\ p = state.currentTurn /\ state.phase = "ACTION"
                 /\ ~state.playersPublic[p].opened /\ x # Null) =>
                  /\ r.ok => Includes(ids, x)
                  /\ (/\ ~Includes(ids, x)
                      /\ call'.action.type = "OPEN_MULTI" =>
                           call'.action.groups # <<>> /\ Distinct(ids)) =>
                       /\ ~r.ok /\ ~r.threw
                       /\ r.error \in DiscardDrawnErrors
                       /\ r.state = asDrawn
       IN Rule(Proposed(call'.action), applyAction(asDrawn, call'.action))]_vars

\* C16 witness: an opening without the card drawn from the deck was accepted
C16_Witness ==
  /\ call.ok /\ call.action.type \in Opening
  /\ state.lastDrawSource = "DECK"
  /\ state.lastDrawnCardId # Null
  /\ ~Includes(Proposed(call.action), state.lastDrawnCardId)

\* C17: LAY_MELD succeeds only for an actor who has opened, in phase ACTION, whose
\* proposed cards are all in the hand, pass validateMeld and leave at least one
\* card; no point threshold applies; on success exactly those cards leave the hand,
\* exactly one meld with the validator's canonical fields is appended, the melds
\* already on the table are unchanged and the phase becomes DISCARD.
C17_LayMeld ==
  [][(Invoked /\ call'.action.type = "LAY_MELD"
        /\ \A i \in 1..Len(call'.action.cardIds) : call'.action.cardIds[i] \in CardIDs) =>
       LET p == call'.action.player
           ids == call'.action.cardIds
           n == Len(state.tableMelds)
           Laid(v) ==
             /\ call'.error # "Need 51+ points to open."
             /\ call'.ok =>
                  /\ state.playersPublic[p].opened
                  /\ state.phase = "ACTION"
                  /\ \A i \in 1..Len(ids) : Includes(Hand(state, p), ids[i])
                  /\ v.ok
                  /\ Len(Hand(state, p)) - Len(ids) >= 1
                  /\ Left(Hand(state, p), Hand(state', p), ids)
                  /\ \A q \in PlayerIDs \ {p} : Hand(state', q) = Hand(state, q)
                  /\ Len(state'.tableMelds) = n + 1
                  /\ SubSeq(state'.tableMelds, 1, n) = state.tableMelds
                  /\ state'.tableMelds[n + 1].owner = p
                  /\ Canonical(state'.tableMelds[n + 1], v)
                  /\ state'.phase = "DISCARD"
       IN Laid(validateMeld(dtoByIds(ids)))]_vars

C19_SwapCommitted ==
  [][(Invoked /\ call'.action.type = "SWAP_JOKER") =>
       LET p == call'.action.player
           j == call'.action.jokerId
           r == call'.action.replaceWithId
           Named(m) ==
             /\ m.id = call'.action.meldId
             /\ Includes(m.cardIds, j)
             /\ j \in DOMAIN m.jokerMap
           Stored(m) ==
             /\ r \in CardIDs
             /\ cardsById[r].suit = m.jokerMap[j].suit
             /\ cardsById[r].rank = m.jokerMap[j].rank
       IN /\ call'.ok =>
               /\ Includes(Hand(state, p), r)
               /\ \E i \in 1..Len(state.tableMelds) :
                    Named(state.tableMelds[i]) /\ Stored(state.tableMelds[i])
          /\ (\E i \in 1..Len(state.tableMelds) :
                Named(state.tableMelds[i]) /\ ~Stored(state.tableMelds[i])) =>
               /\ ~call'.ok /\ ~call'.threw
               /\ state' = state]_vars

\* C19 witness: the joker of 3H 4H stands for 2H; the actor, who holds 5H, offered
\* it for the joker and was refused, although 3H 4H 5H is a valid run
C19_Witness ==
  /\ call.action.type = "SWAP_JOKER"
  /\ call.error = "Replacement card does not match joker substitution."
  /\ Includes(Hand(state, call.action.player), call.action.replaceWithId)
  /\ \E i \in 1..Len(state.tableMelds) :
       /\ state.tableMelds[i].id = call.action.meldId
       /\ validateMeld(dtoByIds(replaceId(state.tableMelds[i].cardIds, call.action.jokerId,
                                          call.action.replaceWithId))).ok

\* C20: after a successful SWAP_JOKER the phase is still ACTION and currentTurn is
\* unchanged, the joker is in the actor's hand and no longer in the meld or its
\* jokerMap, the replacement is in the meld and no longer in the hand, the size of
\* the hand is unchanged, and every other hand, pile and meld is unchanged.
C20_SwapEffect ==
  [][(Invoked /\ call'.action.type = "SWAP_JOKER" /\ call'.ok) =>
       LET p == call'.action.player
           j == call'.action.jokerId
           r == call'.action.replaceWithId
           m == CHOOSE i \in 1..Len(state.tableMelds) : state.tableMelds[i].id = call'.action.meldId
       IN /\ state'.phase = "ACTION" /\ state.phase = "ACTION"
          /\ state'.currentTurn = state.currentTurn
          /\ Includes(Hand(state', p), j)
          /\ ~Includes(state'.tableMelds[m].cardIds, j)
          /\ j \notin DOMAIN state'.tableMelds[m].jokerMap
          /\ Includes(state'.tableMelds[m].cardIds, r)
          /\ ~Includes(Hand(state', p), r)
          /\ Len(Hand(state', p)) = Len(Hand(state, p))
          /\ state'.playersPublic[p].handCount = state.playersPublic[p].handCount
          /\ \A q \in PlayerIDs \ {p} : Hand(state', q) = Hand(state, q)
          /\ state'.drawOrder = state.drawOrder
          /\ state'.discard = state.discard
          /\ Len(state'.tableMelds) = Len(state.tableMelds)
          /\ \A i \in 1..Len(state.tableMelds) :
               i # m => state'.tableMelds[i] = state.tableMelds[i]]_vars

\* C21: table-meld invariant: in every reachable state, for every meld on the table,
\* validateMeld applied to the meld's cards succeeds and returns exactly the meld's
\* stored cardIds (canonical order), kind and aceMode, and the keys of the meld's
\* jokerMap are exactly the joker ids occurring in its cardIds.
C21_TableMelds ==
  \A i \in 1..Len(state.tableMelds) :
    LET m == state.tableMelds[i]
        Stored(v) ==
          /\ v.ok
          /\ v.orderedIds = m.cardIds
          /\ v.kind = m.kind
          /\ v.aceMode = m.aceMode
          /\ DOMAIN m.jokerMap = {id \in Range(m.cardIds) : cardsById[id].rank = "JOKER"}
    IN Stored(validateMeld(dtoByIds(m.cardIds)))

\* C21 witness: a set with a joker lies on the table next to a run
C21_Witness ==
  /\ \E i \in 1..Len(state.tableMelds) :
       state.tableMelds[i].kind = "SET" /\ DOMAIN state.tableMelds[i].jokerMap # {}
  /\ \E i \in 1..Len(state.tableMelds) : state.tableMelds[i].kind = "RUN"

(***************************************************************************)
(* Properties of the validator, the meld generator and the deck factory,   *)
(* checked under SpecPure.                                                  *)
(***************************************************************************)

\* The cards of the input
Given == dtosOf(input, SampleCardsById)

\* The positions of the cards of cs that are not jokers
Real(cs) == {i \in 1..Len(cs) : cs[i].rank # "JOKER"}

\* The rank index of a rank that is not the joker, under an ace mode: 2 for the
\* first rank, up to 13 for the king, the ace 1 under LOW and 14 under HIGH
IndexUnder(rank, mode) ==
  IF rank = "ACE" THEN (IF mode = "LOW" THEN 1 ELSE 14)
  ELSE 1 + CHOOSE k \in 1..12 : Ranks[k] = rank

\* (a): a set
IsSet(cs) ==
  /\ Len(cs) \in {3, 4}
  /\ Real(cs) # {}
  /\ \A i, j \in Real(cs) : cs[i].rank = cs[j].rank
  /\ \A i, j \in Real(cs) : i # j => cs[i].suit # cs[j].suit

\* (b): a run under the ace mode
IsRun(cs, mode) ==
  LET lo == IF mode = "LOW" THEN 1 ELSE 2
      hi == IF mode = "LOW" THEN 13 ELSE 14
  IN /\ Len(cs) >= 3
     /\ Real(cs) # {}
     /\ \A i, j \in Real(cs) : cs[i].suit = cs[j].suit
     /\ \A i, j \in Real(cs) :
          i # j => IndexUnder(cs[i].rank, mode) # IndexUnder(cs[j].rank, mode)
     /\ \E start \in lo..hi :
          /\ start + Len(cs) - 1 <= hi
          /\ \A i \in Real(cs) :
               IndexUnder(cs[i].rank, mode) \in start..(start + Len(cs) - 1)

\* C22: validator soundness and completeness: on cards with distinct ids,
\* validateMeld succeeds exactly when the cards are a set (three or four cards, a
\* non-joker among them, the non-jokers of one rank and of distinct suits) or a run
\* under LOW or HIGH (three cards or more, a non-joker among them, the non-jokers
\* of one suit and of distinct rank indices, all inside some window of as many
\* consecutive indices as there are cards that lies in the mode's range).
C22_ValidatorSoundComplete ==
  (result.op = "validateMeld" /\ Distinct(input)) =>
    (result.value.ok <=> (IsSet(Given) \/ IsRun(Given, "LOW") \/ IsRun(Given, "HIGH")))

\* C22 witness: a run of five with two jokers that is valid only with the ace high
C22_Witness ==
  /\ result.op = "validateMeld"
  /\ result.value.ok
  /\ Len(input) = 5
  /\ ~IsSet(Given)
  /\ ~IsRun(Given, "LOW")
  /\ Cardinality(Real(Given)) = 3

\* Two validation results are the same outcome: both fail, or both succeed with
\* the same kind, aceMode, orderedIds and jokerMap
SameMeld(a, b) ==
  /\ a.ok = b.ok
  /\ a.ok => /\ a.kind = b.kind
             /\ a.aceMode = b.aceMode
             /\ a.orderedIds = b.orderedIds
             /\ a.jokerMap = b.jokerMap

\* C23: canonical determinism: the result for the cards of the input is the result
\* for the same cards in ascending order of their ids, so that any two orders of
\* the same cards give the same outcome (every order of up to MaxCards cards is an
\* input); and validating the returned orderedIds returns the same orderedIds and
\* jokerMap.
C23_CanonicalDeterminism ==
  (result.op = "validateMeld" /\ Distinct(input)) =>
    LET Canon(v, ascending, again) ==
          /\ SameMeld(v, ascending)
          /\ v.ok => /\ again.ok
                     /\ again.orderedIds = v.orderedIds
                     /\ again.jokerMap = v.jokerMap
    IN Canon(result.value,
             validateMeld(dtosOf(SortByKeys(input, input), SampleCardsById)),
             IF result.value.ok
             THEN validateMeld(dtosOf(result.value.orderedIds, SampleCardsById))
             ELSE result.value)

\* C23 witness: a valid run with two jokers given neither in ascending order of
\* the ids nor in the order returned
C23_Witness ==
  /\ result.op = "validateMeld"
  /\ result.value.ok
  /\ result.value.kind = "RUN"
  /\ Cardinality(DOMAIN result.value.jokerMap) = 2
  /\ input # SortByKeys(input, input)
  /\ input # result.value.orderedIds

\* C24: decision order: the validator tries SET, then RUN under LOW, then RUN
\* under HIGH, and returns the first success: the result is validateSet's when
\* that succeeds (so cards that are a set and a run are reported a SET with the
\* substitutions of a set: every joker stands for the set's rank), otherwise
\* validateRun's under LOW when that succeeds (so a run valid under both modes is
\* reported LOW), otherwise validateRun's under HIGH; aceMode is HIGH only when
\* SET and LOW both fail.
C24_DecisionOrder ==
  (result.op = "validateMeld" /\ Distinct(input)) =>
    LET Ordered(v, setRes, low, high) ==
          /\ setRes.ok => v = setRes /\ v.kind = "SET"
          /\ (~setRes.ok /\ low.ok) => v = low /\ v.kind = "RUN" /\ v.aceMode = "LOW"
          /\ (~setRes.ok /\ ~low.ok /\ high.ok) => v = high /\ v.kind = "RUN" /\ v.aceMode = "HIGH"
          /\ (~setRes.ok /\ ~low.ok /\ ~high.ok) => ~v.ok
          /\ (v.ok /\ v.aceMode = "HIGH") => (~IsSet(Given) /\ ~IsRun(Given, "LOW"))
          /\ (IsSet(Given) /\ (IsRun(Given, "LOW") \/ IsRun(Given, "HIGH"))) =>
               /\ v.ok /\ v.kind = "SET"
               /\ \A j \in DOMAIN v.jokerMap :
                    \E i \in Real(Given) : v.jokerMap[j].rank = Given[i].rank
          /\ (~IsSet(Given) /\ IsRun(Given, "LOW") /\ IsRun(Given, "HIGH")) =>
               v.ok /\ v.kind = "RUN" /\ v.aceMode = "LOW"
    IN Ordered(result.value, validateSet(Given), validateRun(Given, "LOW"),
               validateRun(Given, "HIGH"))

\* C24 witness: one non-joker and two jokers, a set and a run at once, reported a SET
C24_Witness ==
  /\ result.op = "validateMeld"
  /\ Len(input) = 3
  /\ Cardinality(Real(Given)) = 1
  /\ IsSet(Given)
  /\ IsRun(Given, "LOW")
  /\ result.value.kind = "SET"

\* The fixed order of the suits
SuitOrder == <<"CLUBS", "DIAMONDS", "HEARTS", "SPADES">>

\* The ids of the jokers of cs in ascending order
JokersAscending(cs) ==
  LET ids == Pick(Ids(cs), {i \in 1..Len(cs) : cs[i].rank = "JOKER"})
  IN SortByKeys(ids, ids)

\* The suits, in the fixed order, that no non-joker of cs has
MissingSuits(cs) ==
  Pick(SuitOrder, {k \in 1..4 : \A i \in Real(cs) : cs[i].suit # SuitOrder[k]})

\* The ids of the non-jokers of a set, by the fixed order of their suits
RealBySuit(cs) ==
  LET present == Pick(SuitOrder, {k \in 1..4 : \E i \in Real(cs) : cs[i].suit = SuitOrder[k]})
  IN [k \in 1..Len(present) |-> cs[CHOOSE i \in Real(cs) : cs[i].suit = present[k]].id]

\* C25: set joker assignment: for a valid set, the k-th joker in ascending id order
\* stands for the k-th suit, in the order CLUBS, DIAMONDS, HEARTS, SPADES, missing
\* from the non-jokers, with the set's rank; orderedIds is the non-jokers by that
\* suit order, then the jokers in ascending id order.  [8C, 8D, JOKER] is a SET
\* with the joker standing for the eight of HEARTS and orderedIds [8C, 8D, JOKER].
C25_SetJokers ==
  /\ (result.op = "validateMeld" /\ Distinct(input) /\ result.value.ok
        /\ result.value.kind = "SET") =>
       LET Assigned(v, jokers, missing) ==
             /\ DOMAIN v.jokerMap = Range(jokers)
             /\ \A k \in 1..Len(jokers) :
                  /\ k <= Len(missing)
                  /\ v.jokerMap[jokers[k]].suit = missing[k]
                  /\ \A i \in Real(Given) : v.jokerMap[jokers[k]].rank = Given[i].rank
             /\ v.orderedIds = RealBySuit(Given) \o jokers
       IN Assigned(result.value, JokersAscending(Given), MissingSuits(Given))
  /\ LET Example(v) ==
           /\ v.ok
           /\ v.kind = "SET"
           /\ v.jokerMap[30] = [suit |-> "HEARTS", rank |-> "EIGHT"]
           /\ v.orderedIds = <<7, 8, 30>>
     IN Example(validateMeld(dtoByIds(<<7, 8, 30>>)))

\* C25 witness: a set of one non-joker and two jokers, the higher joker id given first
C25_Witness ==
  /\ result.op = "validateMeld"
  /\ result.value.ok
  /\ result.value.kind = "SET"
  /\ Len(input) = 3
  /\ Len(JokersAscending(Given)) = 2
  /\ input[1] = JokersAscending(Given)[2]
  /\ Len(MissingSuits(Given)) = 3

\* The start of the window the claim describes for the cards under the mode: the
\* smallest start in the mode's range whose Len(cs) consecutive indices stay in
\* the range and contain the index of every non-joker
WindowStart(cs, mode) ==
  LET lo == IF mode = "LOW" THEN 1 ELSE 2
      hi == IF mode = "LOW" THEN 13 ELSE 14
      fits == {s \in lo..hi :
                 /\ s + Len(cs) - 1 <= hi
                 /\ \A i \in Real(cs) : IndexUnder(cs[i].rank, mode) \in s..(s + Len(cs) - 1)}
  IN CHOOSE s \in fits : \A t \in fits : s <= t

\* The run that the claim describes, against the result r of validateRun under the
\* mode, for a window starting at start
RunAsDescribed(cs, mode, r, start, jokers) ==
  LET window == [k \in 1..Len(cs) |-> start + k - 1]
      unfilled == Pick(window, {k \in 1..Len(cs) :
                                  \A i \in Real(cs) : IndexUnder(cs[i].rank, mode) # window[k]})
      realAt(v) == CHOOSE i \in Real(cs) : IndexUnder(cs[i].rank, mode) = v
      before(k) == Cardinality({u \in 1..(k - 1) : window[u] \in Range(unfilled)})
  IN /\ r.kind = "RUN"
     /\ r.aceMode = mode
     /\ DOMAIN r.jokerMap = Range(jokers)
     /\ Len(jokers) = Len(unfilled)
     /\ \A k \in 1..Len(jokers) :
          /\ IndexUnder(r.jokerMap[jokers[k]].rank, mode) = unfilled[k]
          /\ \A i \in Real(cs) : r.jokerMap[jokers[k]].suit = cs[i].suit
          /\ unfilled[k] \in start..(start + Len(cs) - 1)
          /\ unfilled[k] \in (IF mode = "LOW" THEN 1..13 ELSE 2..14)
     /\ r.orderedIds =
          [k \in 1..Len(cs) |->
             IF window[k] \in Range(unfilled) THEN jokers[before(k) + 1]
             ELSE cs[realAt(window[k])].id]

\* The cards hold a king, an ace and a two that are not jokers
HoldsKingAceTwo(cs) ==
  \A rank \in {"KING", "ACE", "TWO"} : \E i \in Real(cs) : cs[i].rank = rank

\* The part of C26 on windows, joker assignment and order, with the examples:
\* [ACE, TWO, THREE] of spades is a LOW run and fails under HIGH; [KING, ACE, TWO]
\* of spades fails under both modes
RunWindows ==
  /\ (result.op = "validateMeld" /\ Distinct(input)) =>
       \A mode \in {"LOW", "HIGH"} :
         LET Described(r) ==
               r.ok => RunAsDescribed(Given, mode, r, WindowStart(Given, mode),
                                      JokersAscending(Given))
         IN Described(validateRun(Given, mode))
  /\ (result.op = "validateMeld" /\ result.value.ok /\ result.value.kind = "RUN") =>
       result.value = validateRun(Given, result.value.aceMode)
  /\ LET Examples(low, high, wrapLow, wrapHigh) ==
           /\ low.ok /\ low.aceMode = "LOW" /\ low.orderedIds = <<1, 2, 3>>
           /\ ~high.ok
           /\ ~wrapLow.ok
           /\ ~wrapHigh.ok
     IN Examples(validateRun(dtosOf(<<1, 2, 3>>, SampleCardsById), "LOW"),
                 validateRun(dtosOf(<<1, 2, 3>>, SampleCardsById), "HIGH"),
                 validateRun(dtosOf(<<6, 1, 2>>, SampleCardsById), "LOW"),
                 validateRun(dtosOf(<<6, 1, 2>>, SampleCardsById), "HIGH"))

\* C26: run window and joker assignment: for a valid run under an ace mode the
\* window is the one with the smallest start in the mode's range (1..13 for LOW,
\* 2..14 for HIGH) whose consecutive indices, as many as there are cards, contain
\* every non-joker index; the jokers in ascending id order stand for the lowest
\* unfilled indices of the window with the run's suit; orderedIds lists the window
\* index by index, the real card where there is one, otherwise the next joker; no
\* joker stands for an index outside the window or the range; an ace never wraps:
\* cards that hold a king, an ace and a two are rejected under both modes unless
\* they are thirteen or more, and [ACE, TWO, THREE] of one suit is a LOW run and
\* fails under HIGH.
C26_RunWindow ==
  /\ RunWindows
  /\ (result.op = "validateMeld" /\ Distinct(input) /\ HoldsKingAceTwo(Given)
        /\ Len(input) < 13) =>
       (~validateRun(Given, "LOW").ok /\ ~validateRun(Given, "HIGH").ok)

\* C26 as stated: as above, but every list of cards that holds a king, an ace and
\* a two is rejected under both modes
C26_RunWindowAsStated ==
  /\ RunWindows
  /\ (result.op = "validateMeld" /\ Distinct(input) /\ HoldsKingAceTwo(Given)) =>
       (~validateRun(Given, "LOW").ok /\ ~validateRun(Given, "HIGH").ok)

\* C26 witness: king, ace and two of spades with both jokers were rejected, and so
\* would any run with the ace between king and two
C26_Witness ==
  /\ result.op = "validateMeld"
  /\ HoldsKingAceTwo(Given)
  /\ Len(JokersAscending(Given)) = 2
  /\ ~result.value.ok

\* C26 second witness: the thirteen spades, king, ace and two among them, are a
\* LOW run from the ace to the king
C26_FullSuit ==
  /\ result.op = "validateMeld"
  /\ HoldsKingAceTwo(Given)
  /\ result.value.ok
  /\ result.value.aceMode = "LOW"
  /\ Len(result.value.orderedIds) = 13

\* The melds of a hand of distinct ids: the sets of three or more positions of the
\* hand whose cards validateMeld accepts
MeldsOf(hand) ==
  {S \in SUBSET (1..Len(hand)) :
     /\ Cardinality(S) >= 3
     /\ validateMeld(dtosOf(Pick(hand, S), SampleCardsById)).ok}

\* out lists exactly the expected lists of ids, each once
ListsExactly(out, expected) ==
  /\ Range(out) = expected
  /\ Len(out) = Cardinality(expected)

\* C27: candidate generator exactness: for a hand of distinct ids,
\* findValidMeldsById returns exactly the subsets of the hand of size 3 up to the
\* size of the hand that validateMeld accepts, each once, as the combination in
\* ascending hand index, and nothing else; the hand is as it was.
C27_GeneratorExact ==
  [][(result.op = "none" /\ result'.op = "findValidMeldsById" /\ Distinct(input)) =>
       /\ input' = input
       /\ ListsExactly(result'.value, {Pick(input, S) : S \in MeldsOf(input)})]_vars

\* C27 witness: the melds of a hand of five cards, the whole hand among them
C27_Witness ==
  /\ result.op = "findValidMeldsById"
  /\ Len(input) = 5
  /\ Len(result.value) > 5
  /\ \E k \in 1..Len(result.value) : result.value[k] = input

\* The number of cards of a deck with the given suit and rank
Copies(deck, suit, rank) ==
  Cardinality({i \in 1..Len(deck) : deck[i].suit = suit /\ deck[i].rank = rank})

\* The deck has 106 cards with pairwise distinct ids, exactly two of them jokers,
\* and the given number of copies of every suit and rank pair without a joker
Population(deck, copies) ==
  /\ Len(deck) = 106
  /\ \A i, j \in 1..Len(deck) : i # j => deck[i].id # deck[j].id
  /\ Cardinality({i \in 1..Len(deck) : deck[i].rank = "JOKER"}) = 2
  /\ \A i \in 1..Len(deck) : (deck[i].rank = "JOKER") <=> (deck[i].suit = "JOKER")
  /\ \A suit \in {"CLUBS", "DIAMONDS", "HEARTS", "SPADES"} :
       \A rank \in Range(Ranks) \ {"JOKER"} : Copies(deck, suit, rank) = copies

\* C28: card population: the deck produced for a game has 106 cards with pairwise
\* distinct ids, exactly 2 of them jokers, and 2 copies of every non-joker
\* suit/rank pair.
C28_Population ==
  result.op = "makeShuffledDeck" => Population(result.value, 2)

\* C28 as stated: 4 copies of every non-joker suit/rank pair
C28_PopulationAsStated ==
  result.op = "makeShuffledDeck" => Population(result.value, 4)

\* C28 witness: a deck was made and shuffled; its first card is not the first one
\* pushed
C28_Witness ==
  /\ result.op = "makeShuffledDeck"
  /\ result.value[1].id # 1
  /\ Copies(result.value, "SPADES", "ACE") = 2

(***************************************************************************)
(* Turn structure and hand sizes, checked under Spec.                      *)
(***************************************************************************)

Draws == {"DRAW_DECK", "DRAW_DISCARD"}

MainActions == {"OPEN_GROUP", "OPEN_MULTI", "LAY_MELD", "ADD_TO_MELD", "PASS_ACTION"}

\* C29: turn structure: a successful draw is made by the current player in phase
\* DRAW and leads to phase ACTION; a successful SWAP_JOKER is made in phase ACTION
\* and stays there; a successful OPEN_GROUP, OPEN_MULTI, LAY_MELD, ADD_TO_MELD or
\* PASS_ACTION is made in phase ACTION and leads to phase DISCARD; a successful
\* DISCARD is made in phase DISCARD and either ends the game or leads to phase DRAW
\* of the next player; only a successful DISCARD changes the current player, and a
\* call that fails changes neither the phase nor the current player.  Hence each
\* turn is one successful draw, then any number of successful SWAP_JOKER, then one
\* successful main action, then one successful DISCARD.
C29_TurnStructure ==
  [][Invoked =>
       LET type == call'.action.type
           Step(from, to) == state.phase = from /\ state'.phase = to
           SameTurn == state'.currentTurn = state.currentTurn
       IN /\ call'.ok => call'.action.player = state.currentTurn
          /\ (call'.ok /\ type \in Draws) => (Step("DRAW", "ACTION") /\ SameTurn)
          /\ (call'.ok /\ type = "SWAP_JOKER") => (Step("ACTION", "ACTION") /\ SameTurn)
          /\ (call'.ok /\ type \in MainActions) => (Step("ACTION", "DISCARD") /\ SameTurn)
          /\ (call'.ok /\ type = "DISCARD") =>
               \/ Step("DISCARD", "GAME_OVER") /\ SameTurn
               \/ /\ Step("DISCARD", "DRAW")
                  /\ state'.currentTurn = (state.currentTurn + 1) % state.numPlayers
                  /\ state'.currentTurn # state.currentTurn
          /\ call'.ok => type \in Draws \cup MainActions \cup {"SWAP_JOKER", "DISCARD"}
          /\ ~call'.ok => (state'.phase = state.phase /\ SameTurn)]_vars

\* C29 witness: the first player drew, laid cards and discarded, and the turn went
\* to the second player
C29_Witness ==
  /\ call.ok
  /\ call.action.type = "DISCARD"
  /\ state.phase = "DRAW"
  /\ state.currentTurn = 1
  /\ Len(state.tableMelds) > 0
  /\ Len(state.discard) > 0

\* C30: hands never run dry mid-game: in every reachable state whose phase is not
\* GAME_OVER every seated player's hand holds at least one card (so in phase
\* DISCARD the current player has a card to discard); a hand that held cards is
\* empty after a call only if the call is a successful DISCARD by that player, so
\* no OPEN_GROUP, OPEN_MULTI, LAY_MELD or ADD_TO_MELD empties a hand.
C30_HandsNeverDry ==
  /\ [](state.phase # "GAME_OVER" => \A p \in Seated(state) : Len(Hand(state, p)) >= 1)
  /\ [][Invoked =>
          \A p \in Seated(state) :
            (Len(Hand(state, p)) >= 1 /\ Len(Hand(state', p)) = 0) =>
              /\ call'.ok
              /\ call'.action.type = "DISCARD"
              /\ call'.action.player = p
              /\ state'.phase = "GAME_OVER"]_vars

\* C30 witness: the current player laid all cards but one and is to discard
C30_Witness ==
  /\ state.phase = "DISCARD"
  /\ call.ok
  /\ call.action.type \in {"OPEN_MULTI", "LAY_MELD"}
  /\ Len(Hand(state, state.currentTurn)) = 1

\* C30 second witness: laying the whole hand was refused
C30_KeepOneRefused ==
  /\ call.error = "Must keep one to discard."
  /\ call.action.type \in {"LAY_MELD", "ADD_TO_MELD"}
  /\ Len(Hand(state, state.currentTurn)) >= 1

(***************************************************************************)
(* Bookkeeping invariants of the game state, checked under Spec.           *)
(***************************************************************************)

\* C31: winner consistency: in every reachable state winner is set exactly when
\* the phase is GAME_OVER; in phase GAME_OVER the winner is the current player, the
\* winner's hand is empty and the top of the discard pile is the card of the
\* winner's last DISCARD: the call that ends the game puts its card on top of the
\* pile, and no later call changes the state.
C31_WinnerConsistency ==
  /\ []((state.winner # Null) <=> (state.phase = "GAME_OVER"))
  /\ [](state.phase = "GAME_OVER" =>
          /\ state.winner = state.currentTurn
          /\ Hand(state, state.winner) = <<>>
          /\ state.discard # <<>>)
  /\ [][(Invoked /\ state.phase # "GAME_OVER" /\ state'.phase = "GAME_OVER") =>
          /\ call'.action.type = "DISCARD"
          /\ call'.action.player = state'.winner
          /\ state'.discard[Len(state'.discard)] = call'.action.cardId[1]
          /\ Includes(Hand(state, state'.winner), call'.action.cardId[1])]_vars
  /\ [][state.phase = "GAME_OVER" => state' = state]_vars

\* C31 witness: player 0 has won with the discard of 7D, which tops the pile
C31_Witness ==
  /\ state.phase = "GAME_OVER"
  /\ state.winner = 0
  /\ call.ok
  /\ call.action.type = "DISCARD"
  /\ state.discard[Len(state.discard)] = call.action.cardId[1]

\* The sequence s without its last element
Front(s) == SubSeq(s, 1, Len(s) - 1)

\* C32: last-draw bookkeeping: in every reachable state in phase DRAW
\* lastDrawnCardId and lastDrawSource are both null; in phase ACTION or DISCARD both
\* are set, and they describe the draw the current player made this turn: a
\* successful draw records the card it moved to the end of the actor's hand, with
\* source DISCARD exactly when the card was popped from the discard pile and DECK
\* when it was popped from the draw order, and no call that leaves the game in
\* phase ACTION or DISCARD changes the record afterwards.
C32_LastDraw ==
  /\ [](state.phase = "DRAW" =>
          (state.lastDrawnCardId = Null /\ state.lastDrawSource = "null"))
  /\ [](state.phase \in {"ACTION", "DISCARD"} =>
          /\ state.lastDrawnCardId # Null
          /\ state.lastDrawSource \in {"DECK", "DISCARD"})
  /\ [][Invoked =>
          LET p == call'.action.player
              id == state'.lastDrawnCardId
              drew == call'.ok /\ call'.action.type \in Draws
          IN /\ drew =>
                  /\ Hand(state', p) = Append(Hand(state, p), id)
                  /\ state'.currentTurn = p
                  /\ \/ /\ state'.lastDrawSource = "DECK"
                        /\ state.drawOrder # <<>>
                        /\ id = state.drawOrder[Len(state.drawOrder)]
                        /\ state'.drawOrder = Front(state.drawOrder)
                        /\ state'.discard = state.discard
                     \/ /\ state'.lastDrawSource = "DISCARD"
                        /\ state.discard # <<>>
                        /\ id = state.discard[Len(state.discard)]
                        /\ state'.discard = Front(state.discard)
                        /\ state'.drawOrder = state.drawOrder
             /\ (~drew /\ state'.phase \in {"ACTION", "DISCARD"}) =>
                  /\ state'.lastDrawnCardId = state.lastDrawnCardId
                  /\ state'.lastDrawSource = state.lastDrawSource
                  /\ state'.currentTurn = state.currentTurn]_vars

\* C32 witness: the current player took the top of the discard pile, passed, and
\* is to discard with the draw still on record
C32_Witness ==
  /\ state.phase = "DISCARD"
  /\ state.lastDrawSource = "DISCARD"
  /\ state.lastDrawnCardId # Null
  /\ call.ok
  /\ call.action.type = "PASS_ACTION"

\* The errors of the checks that precede the "Already opened." check of an opening
EarlierErrors == {"Not your turn.", "Game is over.", "Not in ACTION phase."}

\* C33: in every reachable state lastDrawSource = DISCARD implies that the current
\* player has opened; so every OPEN_GROUP or OPEN_MULTI call made with
\* lastDrawSource = DISCARD that reaches the "Already opened." check fails there,
\* and no call returns a "must include the discard-drawn card" rejection.
C33_DiscardDrawImpliesOpened ==
  /\ [](state.lastDrawSource = "DISCARD" => state.playersPublic[state.currentTurn].opened)
  /\ [][Invoked =>
          /\ call'.error \notin DiscardDrawnErrors
          /\ (call'.action.type \in Opening /\ state.lastDrawSource = "DISCARD"
                /\ call'.error \notin EarlierErrors) =>
               (~call'.ok /\ call'.error = "Already opened.")]_vars

\* C33 witness: an opening proposed after drawing from the discard pile was refused
\* because the player had opened
C33_Witness ==
  /\ call.action.type \in Opening
  /\ call.error = "Already opened."
  /\ state.lastDrawSource = "DISCARD"
  /\ state.phase = "ACTION"

\* The ids and owners of the table melds, in table order
MeldKeys(st) == [i \in 1..Len(st.tableMelds) |-> <<st.tableMelds[i].id, st.tableMelds[i].owner>>]

\* C34: opened flag and meld ownership: a player's opened flag, once true, stays
\* true; no meld is removed from tableMelds and no meld's id or owner changes (the
\* melds of the state before are a prefix of the melds after, by id and owner); and
\* in every reachable state a player has opened exactly when some table meld has
\* that player as owner.
C34_OpenedAndOwnership ==
  /\ [](\A p \in PlayerIDs :
          state.playersPublic[p].opened <=>
            \E i \in 1..Len(state.tableMelds) : state.tableMelds[i].owner = p)
  /\ [][/\ \A p \in PlayerIDs :
             state.playersPublic[p].opened => state'.playersPublic[p].opened
        /\ Len(state'.tableMelds) >= Len(state.tableMelds)
        /\ SubSeq(MeldKeys(state'), 1, Len(state.tableMelds)) = MeldKeys(state)]_vars

\* C34 witness: the first player has opened, two melds or more lie on the table, and
\* a later call laid, extended or changed a meld
C34_Witness ==
  /\ state.playersPublic[0].opened
  /\ Len(state.tableMelds) >= 2
  /\ call.ok
  /\ call.action.type \in {"ADD_TO_MELD", "SWAP_JOKER", "LAY_MELD"}

\* C35: read-model counters stay in sync: in every reachable state handCount of
\* every player equals the length of that player's hand, and deckCount equals the
\* length of the draw order.
C35_CountersInSync ==
  /\ \A p \in PlayerIDs : state.playersPublic[p].handCount = Len(Hand(state, p))
  /\ state.deckCount = Len(state.drawOrder)

\* C35 witness: after draws from the deck, cards laid and a joker swapped into the
\* hand, the counters agree with the hand and the draw order
C35_Witness ==
  /\ call.ok
  /\ call.action.type = "SWAP_JOKER"
  /\ state.playersPublic[0].handCount = Len(Hand(state, 0))
  /\ state.playersPublic[0].handCount < HandSize
  /\ state.deckCount = Len(state.drawOrder)
  /\ state.deckCount < Len(Deck) - NumPlayers * HandSize

\* The precondition checks of SWAP_JOKER (lines 361-381), read off the state before
\* the call: the caller is admitted, the meld is found, the joker is in the meld with
\* a stored substitution, the replacement matches it and is in the actor's hand
PassesSwapChecks(st, a) ==
  LET m == findMeld(st, a.meldId)
      p == a.player
  IN /\ a.type = "SWAP_JOKER"
     /\ p \in Seated(st)
     /\ p = st.currentTurn
     /\ st.phase = "ACTION"
     /\ st.playersPublic[p].opened
     /\ m # 0
     /\ Includes(st.tableMelds[m].cardIds, a.jokerId)
     /\ a.jokerId \in DOMAIN st.tableMelds[m].jokerMap
     /\ ~IsUndefined(dto(a.replaceWithId))
     /\ dto(a.replaceWithId).rank = st.tableMelds[m].jokerMap[a.jokerId].rank
     /\ dto(a.replaceWithId).suit = st.tableMelds[m].jokerMap[a.jokerId].suit
     /\ Includes(Hand(st, p), a.replaceWithId)

\* C36: SWAP_JOKER revalidation cannot fail: a SWAP_JOKER that passes all the
\* precondition checks (meld found, joker in the meld with a stored substitution,
\* replacement matching it and in the actor's hand) passes the validateMeld that
\* follows, so the call is accepted and the rollback branch is never executed.
C36_SwapRevalidationPasses ==
  [][(Invoked /\ PassesSwapChecks(state, call'.action)) => call'.ok]_vars

\* The positions of a meld's cardIds that hold a joker
JokerPositions(cardIds) == {i \in 1..Len(cardIds) : isJoker(dto(cardIds[i]))}

\* C37: SWAP_JOKER preserves committed identities: after a successful SWAP_JOKER the
\* meld's kind and aceMode are the same as before and every other joker still in
\* the meld has the jokerMap entry (suit and rank) it had before the swap.
C37_SwapKeepsIdentities ==
  [][(Invoked /\ call'.ok /\ call'.action.type = "SWAP_JOKER") =>
       LET m == findMeld(state, call'.action.meldId)
           old == state.tableMelds[m]
           new == state'.tableMelds[m]
       IN /\ new.kind = old.kind
          /\ new.aceMode = old.aceMode
          /\ \A i \in JokerPositions(new.cardIds) :
               LET j == new.cardIds[i]
               IN j # call'.action.jokerId =>
                    /\ j \in DOMAIN old.jokerMap
                    /\ j \in DOMAIN new.jokerMap
                    /\ new.jokerMap[j] = old.jokerMap[j]]_vars

\* C37 witness: a SWAP_JOKER was accepted on a meld that still holds another joker
\* with its stored substitution
C37_Witness ==
  /\ call.ok
  /\ call.action.type = "SWAP_JOKER"
  /\ LET m == findMeld(state, call.action.meldId)
     IN /\ m # 0
        /\ \E i \in JokerPositions(state.tableMelds[m].cardIds) :
             /\ state.tableMelds[m].cardIds[i] # call.action.jokerId
             /\ state.tableMelds[m].cardIds[i] \in DOMAIN state.tableMelds[m].jokerMap

\* C38: ADD_TO_MELD preserves committed joker identities: after a successful
\* ADD_TO_MELD every joker that was already in the meld has the jokerMap entry
\* (suit and rank) it had before the call, and the meld's kind is unchanged.
C38_AddKeepsIdentities ==
  [][(Invoked /\ call'.ok /\ call'.action.type = "ADD_TO_MELD") =>
       LET m == findMeld(state, call'.action.meldId)
           old == state.tableMelds[m]
           new == state'.tableMelds[m]
       IN /\ new.kind = old.kind
          /\ \A i \in JokerPositions(old.cardIds) :
               LET j == old.cardIds[i]
               IN j \in DOMAIN old.jokerMap =>
                    /\ j \in DOMAIN new.jokerMap
                    /\ new.jokerMap[j] = old.jokerMap[j]]_vars

\* C39: no deadlock: in every reachable state with phase other than GAME_OVER
\* applyAction accepts at least one action of the current player: in DRAW some draw
\* succeeds, in ACTION PASS_ACTION succeeds, in DISCARD the hand is not empty and
\* discarding any card of it succeeds.
C39_NoDeadlock ==
  LET p == state.currentTurn
      Accepts(action) == applyAction(state, action).ok
  IN /\ state.phase = "DRAW" =>
          \/ Accepts([type |-> "DRAW_DECK", player |-> p])
          \/ Accepts([type |-> "DRAW_DISCARD", player |-> p])
     /\ state.phase = "ACTION" => Accepts([type |-> "PASS_ACTION", player |-> p])
     /\ state.phase = "DISCARD" =>
          /\ Hand(state, p) # <<>>
          /\ \A i \in 1..Len(Hand(state, p)) :
               Accepts([type |-> "DISCARD", player |-> p, cardId |-> <<Hand(state, p)[i]>>])

\* C40: bot progress: in every reachable state with phase ACTION or DISCARD,
\* botStep(state, currentTurn) makes one applyAction call that returns ok:true and
\* advances the phase (ACTION to DISCARD; DISCARD to the next player's DRAW or to
\* GAME_OVER): the bot never submits a meld the reducer rejects, so repeated botStep
\* calls are not stuck in the same state.
C40_BotProgress ==
  [][(BotStep /\ state.phase \in {"ACTION", "DISCARD"}) =>
       /\ call'.ok
       /\ state.phase = "ACTION" => state'.phase = "DISCARD"
       /\ state.phase = "DISCARD" =>
            \/ state'.phase = "GAME_OVER"
            \/ /\ state'.phase = "DRAW"
               /\ state'.currentTurn = (state.currentTurn + 1) % state.numPlayers]_vars

====
